---- MODULE Spec2Model ----
(***************************************************************************)
(* Read-path operators and column-store registry of the Akumuli storage    *)
(* engine (column_store.cpp, scan.cpp, operators/aggregate.h).             *)
(*                                                                         *)
(* The module holds one state machine per component; every component has   *)
(* its own variables and its own specification, and a component's actions  *)
(* leave the variables of the other components unchanged:                  *)
(*   SpecMerge     MergeIterator<TimeOrder|SeriesOrder>::kway_merge        *)
(*   SpecChain     ChainMaterializer::read / ChainIterator::read           *)
(*   SpecJoin      JoinIterator::fill_buffers / JoinIterator::read         *)
(*   SpecGroupAgg  CombineGroupAggregateOperator                           *)
(*   SpecRegistry  ColumnStore (create_new_column, open_or_restore,        *)
(*                 write, close) run by concurrent threads                 *)
(***************************************************************************)
EXTENDS Integers, Sequences, FiniteSets, TLC

(***************************************************************************)
(* Bounds of the model.                                                    *)
(***************************************************************************)
\* timestamps of the scanned series are drawn from 1..MaxTs
MaxTs == 3
\* largest destination capacity (in samples) passed to a read call
MaxDest == 2
\* RANGE_SIZE of column_store.cpp (1024 there), scaled down: the number of
\* points a MergeIterator range requests from its cursor in one read
RANGE_SIZE == 2

(***************************************************************************)
(* Generic helpers.                                                        *)
(***************************************************************************)
Min2(a, b) == IF a <= b THEN a ELSE b

Max2(a, b) == IF a >= b THEN a ELSE b

RECURSIVE SetToSortedSeq(_)
\* the elements of a finite set of integers in ascending order
SetToSortedSeq(S) ==
    IF S = {} THEN << >>
    ELSE LET m == CHOOSE x \in S : \A y \in S : x <= y
         IN  << m >> \o SetToSortedSeq(S \ {m})

Reverse(s) == [i \in 1..Len(s) |-> s[Len(s) + 1 - i]]

SeqRange(s) == { s[i] : i \in 1..Len(s) }

\* std::tuple comparison: lexicographic on pairs
TupleLess(a, b) == a[1] < b[1] \/ (a[1] = b[1] /\ a[2] < b[2])

TupleGreater(a, b) == TupleLess(b, a)

(***************************************************************************)
(* Leaf cursor (NBTreeIterator / RealValuedOperator) contract.             *)
(* A cursor owns the time-ordered points of one series in the queried      *)
(* range; `pos` points were already delivered.  One read(n) delivers the   *)
(* next block: at most n points and at most `blk` points (cursors may      *)
(* return short blocks).  The block that exhausts the cursor carries       *)
(* NO_DATA when `tail` is TRUE (final partial block) and SUCCESS           *)
(* otherwise; an exhausted cursor answers (NO_DATA, 0).                    *)
(***************************************************************************)
CursorRead(pts, pos, n, blk, tail) ==
    LET remain == Len(pts) - pos
        k      == Min2(n, Min2(blk, remain))
    IN  [ status |-> IF remain = 0 THEN "NO_DATA"
                     ELSE IF k = remain /\ tail THEN "NO_DATA"
                     ELSE "SUCCESS",
          size   |-> k,
          ts     |-> [i \in 1..k |-> pts[pos + i].ts],
          xs     |-> [i \in 1..k |-> pts[pos + i].val] ]

\* the points of cursor number c over the timestamp set S, in scan order;
\* every point of every cursor has a value of its own (10*c + rank)
SeriesPoints(c, S, forward) ==
    LET asc == SetToSortedSeq(S)
        pts == [i \in 1..Len(asc) |-> [ts |-> asc[i], val |-> 10 * c + i]]
    IN  IF forward THEN pts ELSE Reverse(pts)

(***************************************************************************)
(* MergeIterator (column_store.cpp).                                       *)
(***************************************************************************)
VARIABLES
    m_pts,      \* m_pts[c]: the points cursor c yields, in scan order
    m_ids,      \* ids_
    m_forward,  \* forward_
    m_order,    \* the CmpPred template argument: "TimeOrder" | "SeriesOrder"
    m_blk,      \* largest block a cursor returns from one read
    m_tail,     \* whether a cursor's last block carries NO_DATA
    m_iters,    \* iters_: the cursor numbers, << >> once cleared
    m_cpos,     \* m_cpos[c]: points cursor c has delivered so far
    m_ranges,   \* ranges_
    m_out,      \* every sample reported by the read calls so far, in order
    m_status,   \* status returned by the last read ("NONE" before the first)
    m_size      \* size returned by the last read

mergeVars == << m_pts, m_ids, m_forward, m_order, m_blk, m_tail, m_iters,
                m_cpos, m_ranges, m_out, m_status, m_size >>

\* the series ids of the merged cursors: pairwise distinct, not in cursor order
MergeIds == << 2, 1, 3 >>

MergeCursors == 1..Len(MergeIds)

\* Range::empty
RangeEmpty(rg) == ~(rg.pos < rg.size)

\* Range::top_key: (timestamp, id)
RangeTopKey(rg) == << rg.ts[rg.pos + 1], rg.id >>

\* Range::top_value
RangeTopValue(rg) == rg.xs[rg.pos + 1]

\* TimeOrder<dir>::operator(): std::greater on (timestamp, id) when forward
TimeOrderCmp(forward, lkey, rkey) ==
    IF forward THEN TupleGreater(lkey, rkey) ELSE TupleLess(lkey, rkey)

\* SeriesOrder<dir>::operator(): the same on the inverted key (id, timestamp)
SeriesOrderCmp(forward, lkey, rkey) ==
    LET ilhs == << lkey[2], lkey[1] >>
        irhs == << rkey[2], rkey[1] >>
    IN  IF forward THEN TupleGreater(ilhs, irhs) ELSE TupleLess(ilhs, irhs)

HeapCmp(order, forward, lkey, rkey) ==
    IF order = "TimeOrder" THEN TimeOrderCmp(forward, lkey, rkey)
    ELSE SeriesOrderCmp(forward, lkey, rkey)

\* heap.top(): the heap holds the head of every non-empty range (index in
\* `live`); its top is an item no other item is ordered before.  Items with
\* equal keys are resolved to the lowest range index.
HeapTop(ranges, live) ==
    LET tops == { r \in live : \A q \in live :
                    ~HeapCmp(m_order, m_forward, RangeTopKey(ranges[r]),
                             RangeTopKey(ranges[q])) }
    IN  CHOOSE r \in tops : \A q \in tops : r <= q

RECURSIVE MergeInitRanges(_, _, _)
\* kway_merge, first call: one block is read from every cursor; a range is
\* kept when its read gave SUCCESS, or NO_DATA with points
MergeInitRanges(i, cpos, ranges) ==
    IF i > Len(m_iters) THEN [cpos |-> cpos, ranges |-> ranges, status |-> "SUCCESS"]
    ELSE
      LET c       == m_iters[i]
          rd      == CursorRead(m_pts[c], cpos[c], RANGE_SIZE, m_blk, m_tail)
          cpos2   == [cpos EXCEPT ![c] = @ + rd.size]
          keep    == rd.status = "SUCCESS" \/ (rd.status = "NO_DATA" /\ rd.size # 0)
          ranges2 == IF keep
                     THEN Append(ranges, [id |-> m_ids[i], ts |-> rd.ts, xs |-> rd.xs,
                                          size |-> rd.size, pos |-> 0])
                     ELSE ranges
      IN  IF rd.status # "SUCCESS" /\ rd.status # "NO_DATA"
          THEN [cpos |-> cpos2, ranges |-> ranges2, status |-> rd.status]
          ELSE MergeInitRanges(i + 1, cpos2, ranges2)

RECURSIVE MergeLoop(_, _, _, _)
\* kway_merge, the pop / refill / push loop; `dest` holds the samples written
\* to the destination in this call.  The heap index of an item is the index
\* of its range in ranges_, and the refill reads iters_[index].
MergeLoop(cpos, ranges, dest, size) ==
    LET live == { r \in 1..Len(ranges) : ~RangeEmpty(ranges[r]) }
    IN
    IF live = {}
    THEN [cpos |-> cpos, ranges |-> << >>, iters |-> << >>, out |-> dest,
          status |-> "NO_DATA", size |-> Len(dest)]
    ELSE
      LET index  == HeapTop(ranges, live)
          point  == RangeTopKey(ranges[index])
          sample == [id |-> point[2], ts |-> point[1],
                     val |-> RangeTopValue(ranges[index]), type |-> "FLOAT"]
      IN
      IF ~(Len(dest) < size)
      THEN [cpos |-> cpos, ranges |-> ranges, iters |-> m_iters, out |-> dest,
            status |-> "SUCCESS", size |-> size]
      ELSE
        LET adv  == [ranges EXCEPT ![index].pos = @ + 1]
            c    == m_iters[index]
            rd   == CursorRead(m_pts[c], cpos[c], RANGE_SIZE, m_blk, m_tail)
            fill == [adv EXCEPT ![index].ts = rd.ts, ![index].xs = rd.xs,
                                ![index].size = rd.size, ![index].pos = 0]
        IN
        IF ~RangeEmpty(adv[index])
        THEN MergeLoop(cpos, adv, Append(dest, sample), size)
        ELSE IF rd.status # "SUCCESS" /\ rd.status # "NO_DATA"
        THEN [cpos |-> [cpos EXCEPT ![c] = @ + rd.size], ranges |-> adv,
              iters |-> m_iters, out |-> << >>, status |-> rd.status, size |-> 0]
        ELSE MergeLoop([cpos EXCEPT ![c] = @ + rd.size], fill,
                       Append(dest, sample), size)

\* MergeIterator::kway_merge(dest, size)
kway_merge(size) ==
    IF m_iters = << >>
    THEN [cpos |-> m_cpos, ranges |-> m_ranges, iters |-> m_iters, out |-> << >>,
          status |-> "NO_DATA", size |-> 0]
    ELSE
      LET ini == IF m_ranges = << >>
                 THEN MergeInitRanges(1, m_cpos, << >>)
                 ELSE [cpos |-> m_cpos, ranges |-> m_ranges, status |-> "SUCCESS"]
      IN  IF ini.status # "SUCCESS"
          THEN [cpos |-> ini.cpos, ranges |-> ini.ranges, iters |-> m_iters,
                out |-> << >>, status |-> ini.status, size |-> 0]
          ELSE MergeLoop(ini.cpos, ini.ranges, << >>, size)

\* a MergeIterator built with the ids `ids`, one of the orders `orders` and
\* cursors of one of the directions `directions`
MergeInitWith(ids, orders, directions) ==
    /\ m_forward \in directions
    /\ m_order \in orders
    /\ m_blk \in 1..RANGE_SIZE
    /\ m_tail \in BOOLEAN
    /\ m_ids = ids
    /\ \E S \in [MergeCursors -> SUBSET (1..MaxTs)] :
         m_pts = [c \in MergeCursors |-> SeriesPoints(c, S[c], m_forward)]
    /\ m_iters = [c \in MergeCursors |-> c]
    /\ m_cpos = [c \in MergeCursors |-> 0]
    /\ m_ranges = << >>
    /\ m_out = << >>
    /\ m_status = "NONE"
    /\ m_size = 0

MergeInit == MergeInitWith(MergeIds, {"TimeOrder", "SeriesOrder"}, BOOLEAN)

\* the values the merge variables keep in the other specifications
MergeIdle ==
    /\ m_forward = TRUE
    /\ m_order = "TimeOrder"
    /\ m_blk = 1
    /\ m_tail = FALSE
    /\ m_ids = << >>
    /\ m_pts = << >>
    /\ m_iters = << >>
    /\ m_cpos = << >>
    /\ m_ranges = << >>
    /\ m_out = << >>
    /\ m_status = "NONE"
    /\ m_size = 0

\* MergeIterator::read(dest, size)
MergeRead(size) ==
    \E r \in {kway_merge(size)} :
        /\ m_iters' = r.iters
        /\ m_cpos' = r.cpos
        /\ m_ranges' = r.ranges
        /\ m_out' = m_out \o r.out
        /\ m_status' = r.status
        /\ m_size' = r.size
        /\ UNCHANGED << m_pts, m_ids, m_forward, m_order, m_blk, m_tail >>

(***************************************************************************)
(* ChainMaterializer (scan.cpp) and ChainIterator (column_store.cpp).      *)
(***************************************************************************)
VARIABLES
    c_kind,     \* the class of the operator: "ChainMaterializer" | "ChainIterator"
    c_pts,      \* c_pts[c]: the points cursor c yields
    c_ids,      \* ids_
    c_blk,      \* largest block a cursor returns from one read
    c_tail,     \* whether a cursor's last block carries NO_DATA
    c_pos,      \* pos_
    c_cpos,     \* c_cpos[c]: points cursor c has delivered so far
    c_out,      \* every sample reported by the read calls so far, in order
    c_status,   \* status returned by the last read ("NONE" before the first)
    c_size,     \* size returned by the last read (bytes or samples)
    c_first,    \* the first return with a status other than SUCCESS:
                \* its status and the number of samples reported up to it
    c_unavail,  \* the cursors whose data is unavailable: they answer every
                \* read with (UNAVAILABLE, 0)
    c_room      \* number of samples the destination of the last read could hold

chainVars == << c_kind, c_pts, c_ids, c_blk, c_tail, c_pos, c_cpos, c_out,
                c_status, c_size, c_first, c_unavail, c_room >>

\* sizeof(aku_Sample): the fixed sample header with its 8-byte value slot
SizeofSample == 32

\* the series ids of the chained cursors
ChainIds == << 4, 2, 6 >>

ChainCursors == 1..Len(ChainIds)

\* destination sizes in bytes handed to ChainMaterializer::read
ChainDestSizes == { k * SizeofSample + r : k \in 1..MaxDest, r \in {0, 8} }

\* the sets of cursors whose data may be unavailable
UnavailableSets == { {}, {1}, {2} }

\* the read of cursor number c, which delivered pos points so far
ChainCursorRead(c, pos, n) ==
    IF c \in c_unavail
    THEN [status |-> "UNAVAILABLE", size |-> 0, ts |-> << >>, xs |-> << >>]
    ELSE CursorRead(c_pts[c], pos, n, c_blk, c_tail)

RECURSIVE ChainLoop(_, _, _, _, _)
\* the while loop of ChainMaterializer::read and of ChainIterator::read:
\* `pos` is pos_, `acc` the (id, timestamp, value) triples gathered so far,
\* `size` the free room of the destination, `status` the last cursor status
ChainLoop(pos, cpos, acc, size, status) ==
    IF ~(pos < Len(c_pts))
    THEN [pos |-> pos, cpos |-> cpos, acc |-> acc, status |-> status]
    ELSE
      LET curr  == c_ids[pos + 1]
          rd    == ChainCursorRead(pos + 1, cpos[pos + 1], size)
          acc2  == acc \o [i \in 1..rd.size |->
                             [id |-> curr, ts |-> rd.ts[i], val |-> rd.xs[i]]]
          cpos2 == [cpos EXCEPT ![pos + 1] = @ + rd.size]
          size2 == size - rd.size
      IN  IF size2 = 0
          THEN [pos |-> pos, cpos |-> cpos2, acc |-> acc2, status |-> rd.status]
          ELSE IF rd.status = "NO_DATA"
          THEN ChainLoop(pos + 1, cpos2, acc2, size2, rd.status)
          ELSE IF rd.status # "SUCCESS"
          THEN [pos |-> pos + 1, cpos |-> cpos2, acc |-> acc2, status |-> rd.status]
          ELSE ChainLoop(pos + 1, cpos2, acc2, size2, rd.status)

\* the conversion of the gathered triples to FLOAT samples
ChainSamples(acc) ==
    [i \in 1..Len(acc) |->
        [id |-> acc[i].id, ts |-> acc[i].ts, val |-> acc[i].val,
         type |-> "FLOAT", size |-> SizeofSample]]

\* ChainMaterializer::read(dest, dest_size): sizes in bytes
ChainMaterializer_read(dest_size) ==
    LET r == ChainLoop(c_pos, c_cpos, << >>, dest_size \div SizeofSample, "NO_DATA")
    IN  [pos |-> r.pos, cpos |-> r.cpos, out |-> ChainSamples(r.acc),
         status |-> r.status, size |-> Len(r.acc) * SizeofSample,
         room |-> dest_size \div SizeofSample]

\* ChainIterator::read(dest, size): sizes in samples
ChainIterator_read(size) ==
    LET r == ChainLoop(c_pos, c_cpos, << >>, size, "NO_DATA")
    IN  [pos |-> r.pos, cpos |-> r.cpos, out |-> ChainSamples(r.acc),
         status |-> r.status, size |-> Len(r.acc), room |-> size]

ChainInit ==
    /\ c_kind \in {"ChainMaterializer", "ChainIterator"}
    /\ c_blk \in 1..MaxDest
    /\ c_tail \in BOOLEAN
    /\ c_ids = ChainIds
    /\ \E S \in [ChainCursors -> SUBSET (1..MaxTs)] :
         c_pts = [c \in ChainCursors |-> SeriesPoints(c, S[c], TRUE)]
    /\ c_pos = 0
    /\ c_cpos = [c \in ChainCursors |-> 0]
    /\ c_out = << >>
    /\ c_status = "NONE"
    /\ c_size = 0
    /\ c_first = [status |-> "NONE", n |-> 0]
    /\ c_unavail \in UnavailableSets
    /\ c_room = 0

\* the values the chain variables keep in the other specifications
ChainIdle ==
    /\ c_kind = "ChainMaterializer"
    /\ c_blk = 1
    /\ c_tail = FALSE
    /\ c_ids = << >>
    /\ c_pts = << >>
    /\ c_pos = 0
    /\ c_cpos = << >>
    /\ c_out = << >>
    /\ c_status = "NONE"
    /\ c_size = 0
    /\ c_first = [status |-> "NONE", n |-> 0]
    /\ c_unavail = {}
    /\ c_room = 0

\* the state change of one read call that returned r
ChainApply(r) ==
    /\ c_pos' = r.pos
    /\ c_cpos' = r.cpos
    /\ c_out' = c_out \o r.out
    /\ c_status' = r.status
    /\ c_size' = r.size
    /\ c_first' = IF c_first.status = "NONE" /\ r.status # "SUCCESS"
                  THEN [status |-> r.status, n |-> Len(c_out) + Len(r.out)]
                  ELSE c_first
    /\ c_room' = r.room
    /\ UNCHANGED << c_kind, c_pts, c_ids, c_blk, c_tail, c_unavail >>

ChainMaterializerRead(dest_size) ==
    /\ c_kind = "ChainMaterializer"
    /\ \E r \in {ChainMaterializer_read(dest_size)} : ChainApply(r)

ChainIteratorRead(size) ==
    /\ c_kind = "ChainIterator"
    /\ \E r \in {ChainIterator_read(size)} : ChainApply(r)

(***************************************************************************)
(* JoinIterator (column_store.cpp).                                        *)
(***************************************************************************)
VARIABLES
    j_pts,          \* j_pts[i]: the points the cursor of column i-1 yields
    j_ids,          \* ids_
    j_blk,          \* largest block a cursor returns from one read
    j_tail,         \* whether a cursor's last block carries NO_DATA
    j_cpos,         \* j_cpos[i]: points the cursor of column i-1 has delivered
    j_buffers,      \* buffers_: BUFFER_SIZE samples per column
    j_buffer_pos,   \* buffer_pos_
    j_buffer_size,  \* buffer_size_
    j_rows,         \* every row reported by the read calls so far, in order
    j_status,       \* status of the last read; "NONE" before the first,
                    \* "HANG" when the call never returns
    j_size,         \* output size (bytes) returned by the last read
    j_calls,        \* number of read calls made
    j_dest          \* size (bytes) of the destination of the last read

joinVars == << j_pts, j_ids, j_blk, j_tail, j_cpos, j_buffers, j_buffer_pos,
               j_buffer_size, j_rows, j_status, j_size, j_calls, j_dest >>

\* JoinIterator::BUFFER_SIZE (4096 in column_store.cpp), scaled down
BUFFER_SIZE == 2

\* number of read calls followed (read never reports the end of the stream)
MaxJoinCalls == 3

\* the series ids of the joined columns, column 0 first
JoinIds == << 11, 12, 13 >>

\* column numbers are 0-based in the code; column i is stored at index i + 1
JoinColumns == 1..Len(JoinIds)

\* destination sizes in bytes handed to JoinIterator::read
JoinDestSizes == { 16, 40, 72 }

\* aku_Sample sample = {}
ZeroSample == [paramid |-> 0, ts |-> 0, val |-> 0]

RECURSIVE Pow2(_)
Pow2(n) == IF n = 0 THEN 1 ELSE 2 * Pow2(n - 1)

RECURSIVE Log2Floor(_)
\* static_cast<u16>(log2(static_cast<i64>(bitmap))) for bitmap >= 1
Log2Floor(n) == IF n <= 1 THEN 0 ELSE 1 + Log2Floor(n \div 2)

\* whether bit i of a bitmap is set
BitSet(bitmap, i) == (bitmap \div Pow2(i)) % 2 = 1

RECURSIVE PopCount(_)
PopCount(n) == IF n = 0 THEN 0 ELSE (n % 2) + PopCount(n \div 2)

RECURSIVE JoinFill(_, _, _)
\* the loop of JoinIterator::fill_buffers over the cursors: every cursor is
\* read once and its block overwrites the head of that column's buffer
JoinFill(ixbuf, cpos, acc) ==
    IF ixbuf > Len(j_pts)
    THEN [status |-> "SUCCESS", cpos |-> cpos, buffers |-> acc.buffers,
          sizes |-> acc.sizes]
    ELSE
      LET rd == CursorRead(j_pts[ixbuf], cpos[ixbuf], BUFFER_SIZE, j_blk, j_tail)
          nb == [i \in 1..BUFFER_SIZE |->
                    IF i <= rd.size
                    THEN [paramid |-> j_ids[ixbuf], ts |-> rd.ts[i], val |-> rd.xs[i]]
                    ELSE acc.buffers[ixbuf][i]]
      IN  IF rd.status # "SUCCESS" /\ rd.status # "NO_DATA"
          THEN [status |-> rd.status, cpos |-> [cpos EXCEPT ![ixbuf] = @ + rd.size],
                buffers |-> acc.buffers, sizes |-> acc.sizes]
          ELSE JoinFill(ixbuf + 1, [cpos EXCEPT ![ixbuf] = @ + rd.size],
                        [buffers |-> [acc.buffers EXCEPT ![ixbuf] = nb],
                         sizes |-> Append(acc.sizes, rd.size)])

\* JoinIterator::fill_buffers
fill_buffers ==
    IF j_buffer_pos[1] # j_buffer_size[1]
    THEN [status |-> "PANIC", cpos |-> j_cpos, buffers |-> j_buffers,
          pos |-> j_buffer_pos, sizes |-> j_buffer_size]
    ELSE
      LET f == JoinFill(1, j_cpos, [buffers |-> j_buffers, sizes |-> << >>])
      IN  IF f.status # "SUCCESS"
          THEN [status |-> f.status, cpos |-> f.cpos, buffers |-> f.buffers,
                pos |-> j_buffer_pos, sizes |-> j_buffer_size]
          ELSE [status |-> "SUCCESS", cpos |-> f.cpos, buffers |-> f.buffers,
                pos |-> [i \in JoinColumns |-> 0], sizes |-> f.sizes]

\* the inner while(true) of JoinIterator::read for one column: the first
\* buffered position from `pos` on whose timestamp is >= key, or -1 when the
\* buffer runs out first (the loop then never ends)
JoinAdvance(buffer, pos, size, key) ==
    LET hits == { q \in pos..(size - 1) : buffer[q + 1].ts >= key }
    IN  IF hits = {} THEN -1
        ELSE CHOOSE q \in hits : \A h \in hits : q <= h

RECURSIVE JoinRow(_, _, _, _, _, _)
\* the for loop over columns 1..ncolumns-1 of one row (i is the 0-based column)
JoinRow(i, key, buffers, sizes, pos, acc) ==
    IF ~(i < Len(j_pts))
    THEN [hang |-> FALSE, pos |-> pos, bitmap |-> acc.bitmap, tuple |-> acc.tuple]
    ELSE
      LET q == JoinAdvance(buffers[i + 1], pos[i + 1], sizes[i + 1], key)
      IN  IF q = -1
          THEN [hang |-> TRUE, pos |-> pos, bitmap |-> acc.bitmap, tuple |-> acc.tuple]
          ELSE
            LET found == buffers[i + 1][q + 1].ts = key
                acc2  == IF found
                         THEN [bitmap |-> acc.bitmap + (IF BitSet(acc.bitmap, i) THEN 0 ELSE Pow2(i)),
                               tuple  |-> (i :> buffers[i + 1][q + 1].val) @@ acc.tuple]
                         ELSE acc
            IN  JoinRow(i + 1, key, buffers, sizes, [pos EXCEPT ![i + 1] = q], acc2)

RECURSIVE JoinLoop(_, _, _, _, _, _)
\* the while (size >= max_sample_size) loop of JoinIterator::read; `rows` are
\* the rows written so far in this call and `output_size` their total size.
\* tuple[i] is the double written at slot i of the row's payload.data; slots
\* the code does not write are not in its domain.  `header` holds the header
\* fields the code assigns (timestamp, payload.size, payload.type), `extent`
\* is the offset in dest just behind the last byte written for the row.
JoinLoop(buffers, sizes, pos, size, rows, output_size) ==
    LET ncolumns        == Len(j_pts)
        max_sample_size == SizeofSample + ncolumns
    IN
    IF ~(size >= max_sample_size)
    THEN [status |-> "SUCCESS", pos |-> pos, rows |-> rows, size |-> output_size]
    ELSE
      LET head == buffers[1][pos[1] + 1]
          key  == head.ts
          row  == JoinRow(1, key, buffers, sizes, pos,
                          [bitmap |-> 1, tuple |-> (0 :> head.val)])
          sample_size == SizeofSample + Log2Floor(row.bitmap)
          last_slot   == CHOOSE i \in DOMAIN row.tuple : \A k \in DOMAIN row.tuple : k <= i
          sample == [ts |-> key, type |-> "TUPLE", size |-> sample_size,
                     bitmap |-> row.bitmap, tuple |-> row.tuple,
                     header |-> [timestamp |-> key, size |-> sample_size, type |-> "TUPLE"],
                     offset |-> output_size,
                     extent |-> output_size + SizeofSample + 8 * (last_slot + 1)]
      IN  IF row.hang
          THEN [status |-> "HANG", pos |-> row.pos, rows |-> << >>, size |-> 0]
          ELSE JoinLoop(buffers, sizes, row.pos, size - sample_size,
                        Append(rows, sample), output_size + sample_size)

\* JoinIterator::read(dest, size)
JoinIterator_read(size) ==
    LET f == IF j_buffer_pos[1] = j_buffer_size[1]
             THEN fill_buffers
             ELSE [status |-> "SUCCESS", cpos |-> j_cpos, buffers |-> j_buffers,
                   pos |-> j_buffer_pos, sizes |-> j_buffer_size]
    IN  IF f.status # "SUCCESS"
        THEN [status |-> f.status, cpos |-> f.cpos, buffers |-> f.buffers,
              pos |-> f.pos, sizes |-> f.sizes, rows |-> << >>, size |-> 0]
        ELSE
          LET r == JoinLoop(f.buffers, f.sizes, f.pos, size, << >>, 0)
          IN  [status |-> r.status, cpos |-> f.cpos, buffers |-> f.buffers,
               pos |-> r.pos, sizes |-> f.sizes, rows |-> r.rows, size |-> r.size]

JoinInit ==
    /\ j_blk \in 1..BUFFER_SIZE
    /\ j_tail \in BOOLEAN
    /\ j_ids = JoinIds
    /\ \E S \in [JoinColumns -> SUBSET (1..MaxTs)] :
         j_pts = [c \in JoinColumns |-> SeriesPoints(c, S[c], TRUE)]
    /\ j_cpos = [c \in JoinColumns |-> 0]
    /\ j_buffers = [c \in JoinColumns |-> [i \in 1..BUFFER_SIZE |-> ZeroSample]]
    /\ j_buffer_pos = [c \in JoinColumns |-> 0]
    /\ j_buffer_size = [c \in JoinColumns |-> 0]
    /\ j_rows = << >>
    /\ j_status = "NONE"
    /\ j_size = 0
    /\ j_calls = 0
    /\ j_dest = 0

\* the values the join variables keep in the other specifications
JoinIdle ==
    /\ j_blk = 1
    /\ j_tail = FALSE
    /\ j_ids = << >>
    /\ j_pts = << >>
    /\ j_cpos = << >>
    /\ j_buffers = << >>
    /\ j_buffer_pos = << >>
    /\ j_buffer_size = << >>
    /\ j_rows = << >>
    /\ j_status = "NONE"
    /\ j_size = 0
    /\ j_calls = 0
    /\ j_dest = 0

\* one call of JoinIterator::read; a call that spins in the column loop
\* never returns, and no further call is made by that thread
JoinRead(size) ==
    /\ j_status \notin {"HANG", "PANIC"}
    /\ j_calls < MaxJoinCalls
    /\ \E r \in {JoinIterator_read(size)} :
           /\ j_cpos' = r.cpos
           /\ j_buffers' = r.buffers
           /\ j_buffer_pos' = r.pos
           /\ j_buffer_size' = r.sizes
           /\ j_rows' = j_rows \o [k \in 1..Len(r.rows) |->
                                     [call |-> j_calls + 1] @@ r.rows[k]]
           /\ j_status' = r.status
           /\ j_size' = r.size
    /\ j_calls' = j_calls + 1
    /\ j_dest' = size
    /\ UNCHANGED << j_pts, j_ids, j_blk, j_tail >>

\* one turn of the drain loop of ColumnStore::join_query over a JoinIterator:
\* the loop runs while the status is SUCCESS, reads into the whole buffer
\* and puts the rows of that read to the processor, which accepts them.
\* Only the rows of the last read are kept and the reads are counted 1, 2, 1,
\* 2, ..., so that a loop that never ends is a cycle of finitely many states.
JoinDrainRunning ==
    j_status \in {"NONE", "SUCCESS"}

\* a turn of the loop, as far as the count of reads shows it
JoinDrainTurn ==
    /\ JoinDrainRunning
    /\ j_calls' = IF j_calls = 1 THEN 2 ELSE 1

JoinDrainRead ==
    /\ JoinDrainTurn
    /\ \E size \in { d \in JoinDestSizes : \A e \in JoinDestSizes : e <= d } :
       \E r \in {JoinIterator_read(size)} :
           /\ j_cpos' = r.cpos
           /\ j_buffers' = r.buffers
           /\ j_buffer_pos' = r.pos
           /\ j_buffer_size' = r.sizes
           /\ j_rows' = [k \in 1..Len(r.rows) |-> [call |-> 1] @@ r.rows[k]]
           /\ j_status' = r.status
           /\ j_size' = r.size
           /\ j_dest' = size
    /\ UNCHANGED << j_pts, j_ids, j_blk, j_tail >>

(***************************************************************************)
(* CombineGroupAggregateOperator (operators/aggregate.h).  The header      *)
(* declares the state, RDBUF_SIZE, the constructor and the methods; the    *)
(* method bodies follow the operator's documented design: a bounded read   *)
(* buffer whose last record is held back until the next refill, and the    *)
(* stitching of a partial trailing bucket with the next sub-iterator's     *)
(* leading bucket.                                                         *)
(*                                                                         *)
(* The scanned series has one point at every timestamp 0..GaLen-1.  Scan   *)
(* offsets u = 0, 1, ... count from the begin of the query: the point at   *)
(* offset u has timestamp u (FORWARD) or GaLen-1-u (BACKWARD).  A result   *)
(* covering the offsets ub..ue-1 has _begin = ts(ub) and _end = ts(ue).    *)
(***************************************************************************)
VARIABLES
    g_step,        \* step_
    g_forward,     \* dir_ = FORWARD
    g_iters,       \* g_iters[k]: the results sub-iterator k yields
    g_blk,         \* largest block a sub-iterator returns from one read
    g_tail,        \* whether a sub-iterator's last block carries NO_DATA
    g_ipos,        \* g_ipos[k]: results sub-iterator k has delivered so far
    g_iter_index,  \* iter_index_
    g_rdbuf,       \* rdbuf_
    g_rdpos,       \* rdpos_
    g_out,         \* every result reported by the read calls so far, in order
    g_status,      \* status returned by the last read ("NONE" before the first)
    g_size         \* size returned by the last read

gaVars == << g_step, g_forward, g_iters, g_blk, g_tail, g_ipos, g_iter_index,
             g_rdbuf, g_rdpos, g_out, g_status, g_size >>

\* number of points of the scanned series
GaLen == 5

\* largest step
MaxStep == 3

\* CombineGroupAggregateOperator::RDBUF_SIZE (0x100 in aggregate.h), scaled
\* down; the buffer must hold the retained record and at least one new one
RDBUF_SIZE == 2

\* timestamp of the point at scan offset u (also used for interval bounds)
GaTs(forward, u) == IF forward THEN u ELSE GaLen - 1 - u

\* value of the point with timestamp t: 1, 4, 3, 2, 1, 4, ... (with ties)
GaValue(t) == ((t * 3) % 4) + 1

RECURSIVE GaSum(_, _, _)
GaSum(forward, ub, ue) ==
    IF ub >= ue THEN 0 ELSE GaValue(GaTs(forward, ub)) + GaSum(forward, ub + 1, ue)

\* the AggregationResult of the points at scan offsets ub..ue-1 (ub < ue);
\* of equal extrema the one met first in scan order gives mints / maxts
AggOver(forward, ub, ue) ==
    LET us    == ub..(ue - 1)
        v(u)  == GaValue(GaTs(forward, u))
        umin  == CHOOSE u \in us : \A w \in us : v(u) < v(w) \/ (v(u) = v(w) /\ u <= w)
        umax  == CHOOSE u \in us : \A w \in us : v(u) > v(w) \/ (v(u) = v(w) /\ u <= w)
    IN  [cnt |-> ue - ub, sum |-> GaSum(forward, ub, ue),
         min |-> v(umin), mints |-> GaTs(forward, umin),
         max |-> v(umax), maxts |-> GaTs(forward, umax),
         first |-> v(ub), last |-> v(ue - 1),
         _begin |-> GaTs(forward, ub), _end |-> GaTs(forward, ue)]

\* AggregationResult::combine: `a` is earlier in scan order than `b`
Combine(a, b) ==
    [cnt |-> a.cnt + b.cnt, sum |-> a.sum + b.sum,
     min |-> IF b.min < a.min THEN b.min ELSE a.min,
     mints |-> IF b.min < a.min THEN b.mints ELSE a.mints,
     max |-> IF b.max > a.max THEN b.max ELSE a.max,
     maxts |-> IF b.max > a.max THEN b.maxts ELSE a.maxts,
     first |-> a.first, last |-> b.last,
     _begin |-> a._begin, _end |-> b._end]

\* the results of a group-aggregate sub-iterator over the scan offsets
\* cb..ce-1: one per step bucket, the first and the last possibly partial
GaBuckets(forward, step, cb, ce) ==
    LET k0 == cb \div step
        k1 == (ce - 1) \div step
    IN  [i \in 1..(k1 - k0 + 1) |->
            AggOver(forward, Max2(cb, (k0 + i - 1) * step),
                             Min2(ce, (k0 + i) * step))]

\* the sub-iterators for the cut offsets `cuts`: adjacent spans in scan
\* order, with an empty sub-iterator after the first span when `hole`
GaSubIterators(forward, step, cuts, hole) ==
    LET bs    == SetToSortedSeq({0, GaLen} \cup cuts)
        spans == [k \in 1..(Len(bs) - 1) |-> GaBuckets(forward, step, bs[k], bs[k + 1])]
    IN  IF hole THEN << spans[1], << >> >> \o Tail(spans) ELSE spans

\* AggregateOperator::read of sub-iterator k
GaCursorRead(items, pos, n, blk, tail) ==
    LET remain == Len(items) - pos
        k      == Min2(n, Min2(blk, remain))
    IN  [ status |-> IF remain = 0 THEN "NO_DATA"
                     ELSE IF k = remain /\ tail THEN "NO_DATA"
                     ELSE "SUCCESS",
          size   |-> k,
          xs     |-> [i \in 1..k |-> items[pos + i]] ]

\* the constructor: iter_index_(0), rdpos_(0), an empty rdbuf_
GaConstruct == [iter_index |-> 0, rdpos |-> 0, rdbuf |-> << >>]

\* a boundary detection that never finds a partial result
GaPartial_Never(forward, step, a) == FALSE

\* boundary detection: the result `a` at the tail of the buffer covers only
\* part of its step bucket, so the next result continues the same bucket
GaPartial(forward, step, a) ==
    IF forward THEN a._end < a._begin + step ELSE a._end > a._begin - step

\* CombineGroupAggregateOperator::elements_in_rdbuf
elements_in_rdbuf(rdbuf, rdpos) == Len(rdbuf) - rdpos

RECURSIVE GaRefillLoop(_, _, _)
\* the loop of refill_read_buffer over the sub-iterators: `buf` is the buffer
\* filled so far (pos_ = Len(buf))
GaRefillLoop(iter_index, ipos, buf) ==
    IF ~(iter_index < Len(g_iters)) \/ RDBUF_SIZE - Len(buf) = 0
    THEN [status |-> "SUCCESS", iter_index |-> iter_index, ipos |-> ipos, rdbuf |-> buf]
    ELSE
      LET rd     == GaCursorRead(g_iters[iter_index + 1], ipos[iter_index + 1],
                                 RDBUF_SIZE - Len(buf), g_blk, g_tail)
          ipos2  == [ipos EXCEPT ![iter_index + 1] = @ + rd.size]
          stitch == rd.size # 0 /\ Len(buf) > 0
                    /\ GaPartial(g_forward, g_step, buf[Len(buf)])
          buf2   == IF stitch
                    THEN SubSeq(buf, 1, Len(buf) - 1)
                            \o << Combine(buf[Len(buf)], rd.xs[1]) >>
                            \o Tail(rd.xs)
                    ELSE buf \o rd.xs
      IN  IF rd.status = "NO_DATA"
          THEN GaRefillLoop(iter_index + 1, ipos2, buf2)
          ELSE IF rd.status # "SUCCESS"
          THEN [status |-> rd.status, iter_index |-> iter_index, ipos |-> ipos2,
                rdbuf |-> buf2]
          ELSE GaRefillLoop(iter_index, ipos2, buf2)

\* a refill that does not keep the last record of the old buffer
refill_read_buffer_NoKeep(iter_index, ipos, rdbuf, rdpos) ==
    IF iter_index = Len(g_iters)
    THEN [status |-> "NO_DATA", iter_index |-> iter_index, ipos |-> ipos,
          rdbuf |-> rdbuf, rdpos |-> rdpos]
    ELSE
      LET r == GaRefillLoop(iter_index, ipos, << >>)
      IN  [status |-> r.status, iter_index |-> r.iter_index, ipos |-> r.ipos,
           rdbuf |-> r.rdbuf, rdpos |-> 0]

\* CombineGroupAggregateOperator::refill_read_buffer: the last record of the
\* buffer is kept as the first record of the refilled buffer
refill_read_buffer(iter_index, ipos, rdbuf, rdpos) ==
    IF iter_index = Len(g_iters)
    THEN [status |-> "NO_DATA", iter_index |-> iter_index, ipos |-> ipos,
          rdbuf |-> rdbuf, rdpos |-> rdpos]
    ELSE
      LET keep == IF rdbuf # << >> THEN << rdbuf[Len(rdbuf)] >> ELSE << >>
          r    == GaRefillLoop(iter_index, ipos, keep)
      IN  [status |-> r.status, iter_index |-> r.iter_index, ipos |-> r.ipos,
           rdbuf |-> r.rdbuf, rdpos |-> 0]

RECURSIVE GaCopyLoop(_, _, _, _)
\* the loop of copy_to: st holds iter_index, ipos, rdbuf, rdpos; `out` are
\* the results copied so far and `size` is the room left in the destination
GaCopyLoop(st, status, size, out) ==
    IF ~(status = "SUCCESS" /\ size > 0)
    THEN [st |-> st, status |-> status, out |-> out]
    ELSE
      LET n == elements_in_rdbuf(st.rdbuf, st.rdpos)
      IN
      IF st.iter_index # Len(g_iters) /\ n < 2
      THEN LET r == refill_read_buffer(st.iter_index, st.ipos, st.rdbuf, st.rdpos)
           IN  GaCopyLoop([iter_index |-> r.iter_index, ipos |-> r.ipos,
                           rdbuf |-> r.rdbuf, rdpos |-> r.rdpos],
                          r.status, size, out)
      ELSE IF st.iter_index = Len(g_iters) /\ n = 0
      THEN [st |-> st, status |-> "NO_DATA", out |-> out]
      ELSE
        LET avail  == IF st.iter_index # Len(g_iters) THEN n - 1 ELSE n
            tocopy == Min2(avail, size)
        IN  GaCopyLoop([st EXCEPT !.rdpos = @ + tocopy], status, size - tocopy,
                       out \o SubSeq(st.rdbuf, st.rdpos + 1, st.rdpos + tocopy))

\* CombineGroupAggregateOperator::copy_to
copy_to(size) ==
    GaCopyLoop([iter_index |-> g_iter_index, ipos |-> g_ipos,
                rdbuf |-> g_rdbuf, rdpos |-> g_rdpos], "SUCCESS", size, << >>)

GaInit ==
    /\ g_step \in 2..MaxStep
    /\ g_forward \in BOOLEAN
    /\ g_blk \in 1..RDBUF_SIZE
    /\ g_tail \in BOOLEAN
    /\ \E cuts \in SUBSET (1..(GaLen - 1)) : \E hole \in BOOLEAN :
         g_iters = GaSubIterators(g_forward, g_step, cuts, hole)
    /\ g_ipos = [k \in 1..Len(g_iters) |-> 0]
    /\ g_iter_index = GaConstruct.iter_index
    /\ g_rdbuf = GaConstruct.rdbuf
    /\ g_rdpos = GaConstruct.rdpos
    /\ g_out = << >>
    /\ g_status = "NONE"
    /\ g_size = 0

\* the values the group-aggregate variables keep in the other specifications
GaIdle ==
    /\ g_step = 1
    /\ g_forward = TRUE
    /\ g_blk = 1
    /\ g_tail = FALSE
    /\ g_iters = << >>
    /\ g_ipos = << >>
    /\ g_iter_index = 0
    /\ g_rdbuf = << >>
    /\ g_rdpos = 0
    /\ g_out = << >>
    /\ g_status = "NONE"
    /\ g_size = 0

\* CombineGroupAggregateOperator::read(destts, destval, size)
GaRead(size) ==
    \E r \in {copy_to(size)} :
        /\ g_iter_index' = r.st.iter_index
        /\ g_ipos' = r.st.ipos
        /\ g_rdbuf' = r.st.rdbuf
        /\ g_rdpos' = r.st.rdpos
        /\ g_out' = g_out \o r.out
        /\ g_status' = r.status
        /\ g_size' = Len(r.out)
        /\ UNCHANGED << g_step, g_forward, g_iters, g_blk, g_tail >>

(***************************************************************************)
(* ColumnStore: the registry of columns (columns_, guarded by              *)
(* table_lock_).  Several threads call its methods.  A method that takes   *)
(* the lock, inserts and releases is split where another thread can run    *)
(* in between: at the acquisition of the lock and after its release.       *)
(* Methods that only look the map up under the lock are one step.          *)
(*                                                                         *)
(* An entry of columns_ is a tree handle: the rescue points the tree was   *)
(* built from, whether a point was appended, whether force_init ran, and   *)
(* whether the handle is a null shared_ptr.  h names the tree object the   *)
(* handle points to, closed tells that the tree's close() has run.         *)
(***************************************************************************)
VARIABLES
    r_columns,     \* columns_: the set of entries [id, rescue, written, init, null]
    r_lock,        \* holder of table_lock_ (NoThread when free)
    r_pc,          \* r_pc[t]: where thread t is inside its current call
    r_arg,         \* r_arg[t]: argument of t's call: id, and mapping entries left
    r_result,      \* r_result[t]: value returned by t's last call ("PENDING" while it runs)
    r_access,      \* the last access to columns_: method and whether locked
    r_race,        \* an unlocked access ran while another thread was inserting
    r_crashed,     \* "NO", or how the process died: "PANIC" or "SEGV"
    r_closed,      \* the map returned by the last close(); valid once close() ran
    r_phase,       \* "run"; "restoring"/"restored": open_or_restore(close()) on a fresh registry
    r_restore_ids, \* the ids that were registered when close() ran
    r_registered,  \* r_registered[id]: insertions of id into columns_ so far
    r_ops          \* calls started so far

registryVars == << r_columns, r_lock, r_pc, r_arg, r_result, r_access, r_race,
                   r_crashed, r_closed, r_phase, r_restore_ids, r_registered,
                   r_ops >>

VARIABLES
    s_cache,       \* s_cache[t]: cache_ of thread t's CStoreSession: entries [id, h]
    s_last         \* the last write call: its arguments, path and effects

sessionVars == << s_cache, s_last >>

\* calls started in one behaviour
MaxOps == 3

Threads == {1, 2}

NoThread == 0

Ids == {1, 2}

\* rescue point lists a caller passes to open_or_restore
RescueLists == { << >>, << 5 >> }

\* std::make_shared<NBTreeExtentsList>(id, rescue_points, blockstore_)
NewTree(id, rescue, h) ==
    [id |-> id, rescue |-> rescue, written |-> FALSE, init |-> FALSE, null |-> FALSE,
     h |-> h, closed |-> FALSE]

\* the entry operator[] default-constructs for a key it does not find
NullEntry(id) ==
    [id |-> id, rescue |-> << >>, written |-> FALSE, init |-> FALSE, null |-> TRUE,
     h |-> 0, closed |-> FALSE]

RECURSIVE SumOver(_, _)
SumOver(f, S) ==
    IF S = {} THEN 0
    ELSE LET x == CHOOSE y \in S : TRUE IN f[x] + SumOver(f, S \ {x})

\* the name of the next tree object that gets registered: trees are numbered
\* in the order of their insertion into columns_
NextHandle == 1 + SumOver(r_registered, Ids)

\* columns_.count(id)
ColumnsCount(id) == Cardinality({e \in r_columns : e.id = id})

\* the ids registered in columns_
ColumnIds == {e.id : e \in r_columns}

\* NBTreeExtentsList::close(): the tree's current roots.  A tree that holds
\* data commits it and returns the new root; one that holds none returns the
\* rescue points it was built from
TreeClose(e) == IF e.written THEN << 10 * e.id >> ELSE e.rescue

\* NBTreeExtentsList::force_init() through the handles registered for id
ForceInit(columns, id) ==
    {IF e.id = id /\ ~e.null THEN [e EXCEPT !.init = TRUE] ELSE e : e \in columns}

\* the mappings passed to open_or_restore, each in an order in which the
\* loop may visit its entries
Mappings ==
    { << [id |-> i, rescue |-> r] >> : i \in Ids, r \in RescueLists }
    \cup { << [id |-> ij[1], rescue |-> r], [id |-> ij[2], rescue |-> q] >> :
              ij \in {x \in Ids \X Ids : x[1] # x[2]}, r \in RescueLists, q \in RescueLists }

\* the orders in which open_or_restore may visit the entries of the map m
\* (a set of [id, roots] with at most two entries)
MappingOrders(m) ==
    { << [id |-> a.id, rescue |-> a.roots] >> : a \in {x \in m : Cardinality(m) = 1} }
    \cup { << [id |-> ab[1].id, rescue |-> ab[1].roots],
               [id |-> ab[2].id, rescue |-> ab[2].roots] >> :
              ab \in {x \in m \X m : x[1] # x[2] /\ Cardinality(m) = 2} }

\* no write call was made yet
NoWrite ==
    [op |-> "NONE", t |-> 0, id |-> 0, type |-> "FLOAT", res |-> "NONE",
     hit |-> FALSE, locked |-> FALSE, appended |-> FALSE, closed |-> FALSE,
     h |-> 0, before |-> << >>, after |-> << >>, seq |-> 0]

RegistryInit ==
    /\ r_columns = {}
    /\ r_lock = NoThread
    /\ r_pc = [t \in Threads |-> "idle"]
    /\ r_arg = [t \in Threads |-> [id |-> 0, todo |-> << >>]]
    /\ r_result = [t \in Threads |-> "NONE"]
    /\ r_access = [op |-> "NONE", locked |-> TRUE]
    /\ r_race = FALSE
    /\ r_crashed = "NO"
    /\ r_closed = [valid |-> FALSE, map |-> {}]
    /\ r_phase = "run"
    /\ r_restore_ids = {}
    /\ r_registered = [i \in Ids |-> 0]
    /\ r_ops = 0
    /\ s_cache = [t \in Threads |-> {}]
    /\ s_last = NoWrite

\* columns_ after create_new_column ran to completion for the ids of S, in
\* ascending order
CreatedColumns(S) ==
    { [NewTree(i, << >>, Cardinality({j \in S : j <= i})) EXCEPT !.init = TRUE] : i \in S }

\* a registry in which some columns were created before the sessions start
SessionInit ==
    /\ \E S \in SUBSET Ids :
          /\ r_columns = CreatedColumns(S)
          /\ r_registered = [i \in Ids |-> IF i \in S THEN 1 ELSE 0]
    /\ r_lock = NoThread
    /\ r_pc = [t \in Threads |-> "idle"]
    /\ r_arg = [t \in Threads |-> [id |-> 0, todo |-> << >>]]
    /\ r_result = [t \in Threads |-> "NONE"]
    /\ r_access = [op |-> "NONE", locked |-> TRUE]
    /\ r_race = FALSE
    /\ r_crashed = "NO"
    /\ r_closed = [valid |-> FALSE, map |-> {}]
    /\ r_phase = "run"
    /\ r_restore_ids = {}
    /\ r_ops = 0
    /\ s_cache = [t \in Threads |-> {}]
    /\ s_last = NoWrite

\* the values the registry variables keep in the other specifications
RegistryIdle ==
    /\ r_columns = {}
    /\ r_lock = 0
    /\ r_pc = << >>
    /\ r_arg = << >>
    /\ r_result = << >>
    /\ r_access = [op |-> "NONE", locked |-> TRUE]
    /\ r_race = FALSE
    /\ r_crashed = "NO"
    /\ r_closed = [valid |-> FALSE, map |-> {}]
    /\ r_phase = "run"
    /\ r_restore_ids = {}
    /\ r_registered = << >>
    /\ r_ops = 0
    /\ s_cache = << >>
    /\ s_last = NoWrite

\* thread t may start a call
CanStart(t) ==
    /\ r_crashed = "NO"
    /\ r_pc[t] = "idle"
    /\ r_phase # "restoring"
    /\ r_ops < MaxOps

\* a thread other than t holds table_lock_ and is about to insert into columns_
InsertInProgress(t) ==
    /\ r_lock \notin {NoThread, t}
    /\ \/ r_pc[r_lock] = "create_locked" /\ ColumnsCount(r_arg[r_lock].id) = 0
       \/ r_pc[r_lock] = "open_locked" /\ ColumnsCount(r_arg[r_lock].todo[1].id) = 0

\* create_new_column(id), up to the acquisition of table_lock_
CreateLock(t, id) ==
    /\ CanStart(t)
    /\ r_lock = NoThread
    /\ r_lock' = t
    /\ r_pc' = [r_pc EXCEPT ![t] = "create_locked"]
    /\ r_arg' = [r_arg EXCEPT ![t] = [id |-> id, todo |-> << >>]]
    /\ r_result' = [r_result EXCEPT ![t] = "PENDING"]
    /\ r_ops' = r_ops + 1
    /\ r_phase' = "run"
    /\ UNCHANGED << r_columns, r_access, r_race, r_crashed, r_closed,
                    r_restore_ids, r_registered >>

\* create_new_column: the block under the lock, and its release
CreateInsert(t) ==
    /\ r_crashed = "NO"
    /\ r_pc[t] = "create_locked"
    /\ r_access' = [op |-> "create_new_column", locked |-> r_lock = t]
    /\ r_lock' = NoThread
    /\ IF ColumnsCount(r_arg[t].id) > 0
       THEN /\ r_result' = [r_result EXCEPT ![t] = "BAD_ARG"]
            /\ r_pc' = [r_pc EXCEPT ![t] = "idle"]
            /\ UNCHANGED << r_columns, r_registered >>
       ELSE /\ r_columns' = r_columns \cup {NewTree(r_arg[t].id, << >>, NextHandle)}
            /\ r_registered' = [r_registered EXCEPT ![r_arg[t].id] = @ + 1]
            /\ r_pc' = [r_pc EXCEPT ![t] = "create_init"]
            /\ UNCHANGED r_result
    /\ UNCHANGED << r_arg, r_race, r_crashed, r_closed, r_phase, r_restore_ids, r_ops >>

\* create_new_column: columns_[id]->force_init() after the lock was released.
\* When another thread is inserting at that moment the two accesses race:
\* the lookup either still finds the entry, or misses it in the table being
\* rebuilt, so that operator[] adds a null entry for id and the call
\* dereferences it
CreateForceInit(t) ==
    /\ r_crashed = "NO"
    /\ r_pc[t] = "create_init"
    /\ r_access' = [op |-> "create_new_column", locked |-> r_lock = t]
    /\ r_race' = (r_race \/ InsertInProgress(t))
    /\ \/ /\ r_columns' = ForceInit(r_columns, r_arg[t].id)
          /\ r_result' = [r_result EXCEPT ![t] = "SUCCESS"]
          /\ r_pc' = [r_pc EXCEPT ![t] = "idle"]
          /\ UNCHANGED r_crashed
       \/ /\ InsertInProgress(t)
          /\ r_columns' = r_columns \cup {NullEntry(r_arg[t].id)}
          /\ r_crashed' = "SEGV"
          /\ UNCHANGED << r_result, r_pc >>
    /\ UNCHANGED << r_lock, r_arg, r_closed, r_phase, r_restore_ids, r_registered, r_ops >>

\* open_or_restore(mapping) is called; todo lists the entries in loop order
OpenStart(t, todo) ==
    /\ CanStart(t)
    /\ r_pc' = [r_pc EXCEPT ![t] = "open_next"]
    /\ r_arg' = [r_arg EXCEPT ![t] = [id |-> 0, todo |-> todo]]
    /\ r_result' = [r_result EXCEPT ![t] = "PENDING"]
    /\ r_ops' = r_ops + 1
    /\ r_phase' = "run"
    /\ UNCHANGED << r_columns, r_lock, r_access, r_race, r_crashed,
                    r_closed, r_restore_ids, r_registered >>

\* open_or_restore: the loop body for the next entry up to the acquisition of
\* table_lock_; empty rescue points abort the process
OpenLock(t) ==
    /\ r_crashed = "NO"
    /\ r_pc[t] = "open_next"
    /\ \/ /\ r_arg[t].todo[1].rescue = << >>
          /\ r_crashed' = "PANIC"
          /\ UNCHANGED << r_lock, r_pc >>
       \/ /\ r_arg[t].todo[1].rescue # << >>
          /\ r_lock = NoThread
          /\ r_lock' = t
          /\ r_pc' = [r_pc EXCEPT ![t] = "open_locked"]
          /\ UNCHANGED r_crashed
    /\ UNCHANGED << r_columns, r_arg, r_result, r_access, r_race, r_closed,
                    r_phase, r_restore_ids, r_registered, r_ops >>

\* open_or_restore: the block under the lock for the current entry
OpenInsert(t) ==
    LET entry    == r_arg[t].todo[1]
        rest     == Tail(r_arg[t].todo)
        returns  == ColumnsCount(entry.id) > 0 \/ rest = << >>
    IN
    /\ r_crashed = "NO"
    /\ r_pc[t] = "open_locked"
    /\ r_access' = [op |-> "open_or_restore", locked |-> r_lock = t]
    /\ r_lock' = NoThread
    /\ IF ColumnsCount(entry.id) > 0
       THEN /\ r_result' = [r_result EXCEPT ![t] = "BAD_ARG"]
            /\ UNCHANGED << r_columns, r_registered, r_arg >>
       ELSE /\ r_columns' = ForceInit(r_columns \cup {NewTree(entry.id, entry.rescue, NextHandle)},
                                      entry.id)
            /\ r_registered' = [r_registered EXCEPT ![entry.id] = @ + 1]
            /\ IF rest = << >>
               THEN /\ r_result' = [r_result EXCEPT ![t] = "SUCCESS"]
                    /\ UNCHANGED r_arg
               ELSE /\ r_arg' = [r_arg EXCEPT ![t].todo = rest]
                    /\ UNCHANGED r_result
    /\ r_pc' = [r_pc EXCEPT ![t] = IF returns THEN "idle" ELSE "open_next"]
    /\ r_phase' = IF returns /\ r_phase = "restoring" THEN "restored" ELSE r_phase
    /\ UNCHANGED << r_race, r_crashed, r_closed, r_restore_ids, r_ops >>

\* a method that only looks columns_ up, under a lock_guard, as one step
LockedLookup(t, op, result) ==
    /\ CanStart(t)
    /\ r_lock = NoThread
    /\ r_access' = [op |-> op, locked |-> TRUE]
    /\ r_result' = [r_result EXCEPT ![t] = result]
    /\ r_ops' = r_ops + 1
    /\ r_phase' = "run"
    /\ UNCHANGED << r_lock, r_pc, r_arg, r_race, r_crashed, r_closed,
                    r_restore_ids, r_registered >>

\* payload types of a sample
PayloadTypes == {"FLOAT", "BLOB"}

\* contents of the rescue point vector a caller passes to write
CallerVectors == { << 7 >> }

\* NBTreeExtentsList::append(ts, value) returning res: the tree holds data;
\* with OK_FLUSH_NEEDED a block was written and is the tree's root
TreeAppend(e, res) ==
    [e EXCEPT !.written = TRUE,
              !.rescue = IF res = "OK_FLUSH_NEEDED" THEN << 10 * e.id >> ELSE @]

\* NBTreeExtentsList::get_roots()
get_roots(e) == e.rescue

\* a ColumnStore::write that swaps the roots into the caller's vector
\* whatever the append returned
ColumnStoreWrite_AlwaysSwaps(t, id, rp, op, cached) ==
    \/ /\ ColumnsCount(id) > 0
       /\ \E res \in {"OK", "OK_FLUSH_NEEDED"} : \E e \in {x \in r_columns : x.id = id} :
            /\ LockedLookup(t, "write", res)
            /\ r_columns' = (r_columns \ {e}) \cup {TreeAppend(e, res)}
            /\ s_cache' = IF cached /\ ~(\E c \in s_cache[t] : c.id = id)
                          THEN [s_cache EXCEPT ![t] = @ \cup {[id |-> id, h |-> e.h]}]
                          ELSE s_cache
            /\ s_last' = [op |-> op, t |-> t, id |-> id, type |-> "FLOAT", res |-> res,
                          hit |-> FALSE, locked |-> TRUE, appended |-> TRUE,
                          closed |-> e.closed, h |-> e.h, before |-> rp,
                          after |-> get_roots(TreeAppend(e, res)),
                          seq |-> r_ops + 1]
    \/ /\ ColumnsCount(id) = 0
       /\ LockedLookup(t, "write", "FAIL_BAD_ID")
       /\ s_last' = [op |-> op, t |-> t, id |-> id, type |-> "FLOAT",
                     res |-> "FAIL_BAD_ID", hit |-> FALSE, locked |-> TRUE,
                     appended |-> FALSE, closed |-> FALSE, h |-> 0,
                     before |-> rp, after |-> rp, seq |-> r_ops + 1]
       /\ UNCHANGED << r_columns, s_cache >>

\* the body of ColumnStore::write for the sample id and the caller's vector
\* rp; op names the method the caller invoked, cached tells whether a session
\* cache was passed
ColumnStoreWrite(t, id, rp, op, cached) ==
    \/ /\ ColumnsCount(id) > 0
       /\ \E res \in {"OK", "OK_FLUSH_NEEDED"} : \E e \in {x \in r_columns : x.id = id} :
            /\ LockedLookup(t, "write", res)
            /\ r_columns' = (r_columns \ {e}) \cup {TreeAppend(e, res)}
            /\ s_cache' = IF cached /\ ~(\E c \in s_cache[t] : c.id = id)
                          THEN [s_cache EXCEPT ![t] = @ \cup {[id |-> id, h |-> e.h]}]
                          ELSE s_cache
            /\ s_last' = [op |-> op, t |-> t, id |-> id, type |-> "FLOAT", res |-> res,
                          hit |-> FALSE, locked |-> TRUE, appended |-> TRUE,
                          closed |-> e.closed, h |-> e.h, before |-> rp,
                          after |-> IF res = "OK_FLUSH_NEEDED"
                                    THEN get_roots(TreeAppend(e, res)) ELSE rp,
                          seq |-> r_ops + 1]
    \/ /\ ColumnsCount(id) = 0
       /\ LockedLookup(t, "write", "FAIL_BAD_ID")
       /\ s_last' = [op |-> op, t |-> t, id |-> id, type |-> "FLOAT",
                     res |-> "FAIL_BAD_ID", hit |-> FALSE, locked |-> TRUE,
                     appended |-> FALSE, closed |-> FALSE, h |-> 0,
                     before |-> rp, after |-> rp, seq |-> r_ops + 1]
       /\ UNCHANGED << r_columns, s_cache >>

\* ColumnStore::write(sample, rescue_points, cache_or_null) called directly,
\* without a session cache
Write(t, id) ==
    \E rp \in CallerVectors : ColumnStoreWrite(t, id, rp, "ColumnStore::write", FALSE)

\* CStoreSession::write: the return for a payload that is not a float
SessionWriteBadValue(t, id, type, rp) ==
    /\ CanStart(t)
    /\ r_result' = [r_result EXCEPT ![t] = "FAIL_BAD_VALUE"]
    /\ s_last' = [op |-> "CStoreSession::write", t |-> t, id |-> id, type |-> type,
                  res |-> "FAIL_BAD_VALUE", hit |-> FALSE, locked |-> FALSE,
                  appended |-> FALSE, closed |-> FALSE, h |-> 0,
                  before |-> rp, after |-> rp, seq |-> r_ops + 1]
    /\ r_ops' = r_ops + 1
    /\ r_phase' = "run"
    /\ UNCHANGED << r_columns, r_lock, r_pc, r_arg, r_access, r_race, r_crashed,
                    r_closed, r_restore_ids, r_registered, s_cache >>

\* a cache hit that goes through the registry like a miss
SessionWriteHit_ViaRegistry(t, id, type, rp) ==
    /\ \E c \in s_cache[t] : c.id = id
    /\ ColumnStoreWrite(t, id, rp, "CStoreSession::write", TRUE)

\* CStoreSession::write: the id is in cache_, the sample is appended to the
\* cached tree; table_lock_ is not taken
SessionWriteHit(t, id, type, rp) ==
    /\ \E c \in {x \in s_cache[t] : x.id = id} :
       \E e \in {x \in r_columns : x.h = c.h} :
       \E res \in {"OK", "OK_FLUSH_NEEDED"} :
          /\ CanStart(t)
          /\ r_columns' = (r_columns \ {e}) \cup {TreeAppend(e, res)}
          /\ r_result' = [r_result EXCEPT ![t] = res]
          /\ s_last' = [op |-> "CStoreSession::write", t |-> t, id |-> id,
                        type |-> type, res |-> res, hit |-> TRUE,
                        locked |-> FALSE, appended |-> TRUE, closed |-> e.closed,
                        h |-> e.h, before |-> rp,
                        after |-> IF res = "OK_FLUSH_NEEDED"
                                  THEN get_roots(TreeAppend(e, res)) ELSE rp,
                        seq |-> r_ops + 1]
    /\ r_ops' = r_ops + 1
    /\ r_phase' = "run"
    /\ UNCHANGED << r_lock, r_pc, r_arg, r_access, r_race, r_crashed,
                    r_closed, r_restore_ids, r_registered, s_cache >>

\* CStoreSession::write: the id is not in cache_, the registry is asked
SessionWriteMiss(t, id, type, rp) ==
    /\ ~(\E c \in s_cache[t] : c.id = id)
    /\ ColumnStoreWrite(t, id, rp, "CStoreSession::write", TRUE)

\* a session write that does not test the payload type
SessionWrite_NoTypeCheck(t, id, type) ==
    \E rp \in CallerVectors :
       \/ SessionWriteHit(t, id, type, rp)
       \/ SessionWriteMiss(t, id, type, rp)

\* CStoreSession::write(sample, rescue_points) by the session of thread t
SessionWrite(t, id, type) ==
    \E rp \in CallerVectors :
       \/ type # "FLOAT" /\ SessionWriteBadValue(t, id, type, rp)
       \/ type = "FLOAT" /\ SessionWriteHit(t, id, type, rp)
       \/ type = "FLOAT" /\ SessionWriteMiss(t, id, type, rp)

\* ColumnStore::query: the lookup of one id of the request
QueryLookup(t, id) ==
    /\ LockedLookup(t, "query", IF ColumnsCount(id) > 0 THEN "SUCCESS" ELSE "NOT_FOUND")
    /\ UNCHANGED r_columns

\* ColumnStore::join_query: the lookup of one id of the request
JoinQueryLookup(t, id) ==
    /\ LockedLookup(t, "join_query", IF ColumnsCount(id) > 0 THEN "SUCCESS" ELSE "NOT_FOUND")
    /\ UNCHANGED r_columns

\* ColumnStore::_get_uncommitted_memory
GetUncommittedMemory(t) ==
    /\ LockedLookup(t, "_get_uncommitted_memory", "SIZE")
    /\ UNCHANGED r_columns

\* ColumnStore::close(): the rescue points of every registered tree
Close(t) ==
    /\ CanStart(t)
    /\ r_lock = NoThread
    /\ r_access' = [op |-> "close", locked |-> TRUE]
    /\ r_closed' = [valid |-> TRUE,
                    map |-> {[id |-> e.id, roots |-> TreeClose(e)] : e \in r_columns}]
    /\ r_columns' = {[e EXCEPT !.closed = TRUE] : e \in r_columns}
    /\ r_restore_ids' = ColumnIds
    /\ r_result' = [r_result EXCEPT ![t] = "CLOSED"]
    /\ r_ops' = r_ops + 1
    /\ r_phase' = "run"
    /\ UNCHANGED << r_lock, r_pc, r_arg, r_race, r_crashed, r_registered >>

\* a fresh ColumnStore is constructed and thread t calls open_or_restore with
\* the map the last close() returned
Reopen(t) ==
    /\ r_crashed = "NO"
    /\ r_closed.valid
    /\ r_closed.map # {}
    /\ r_ops < MaxOps
    /\ r_lock = NoThread
    /\ \A u \in Threads : r_pc[u] = "idle"
    /\ r_result[t] = "CLOSED"
    /\ \E todo \in MappingOrders(r_closed.map) :
          r_arg' = [u \in Threads |-> [id |-> 0, todo |-> IF u = t THEN todo ELSE << >>]]
    /\ r_columns' = {}
    /\ r_pc' = [r_pc EXCEPT ![t] = "open_next"]
    /\ r_result' = [u \in Threads |-> IF u = t THEN "PENDING" ELSE "NONE"]
    /\ r_access' = [op |-> "NONE", locked |-> TRUE]
    /\ r_race' = FALSE
    /\ r_closed' = [valid |-> FALSE, map |-> {}]
    /\ r_phase' = "restoring"
    /\ r_registered' = [i \in Ids |-> 0]
    /\ r_ops' = r_ops + 1
    /\ s_cache' = [u \in Threads |-> {}]
    /\ s_last' = NoWrite
    /\ UNCHANGED << r_lock, r_crashed, r_restore_ids >>

(***************************************************************************)
(* ColumnStore::query and ColumnStore::join_query: validation of the       *)
(* request, lookup of the ids, choice of the operator and the drain loop   *)
(* that hands the operator's output to the stream processor.               *)
(*                                                                         *)
(* The operator is any RowIterator: it answers the calls of read by a      *)
(* script of (status, size) pairs whose last status is not SUCCESS.  The   *)
(* processor accepts samples until the put numbered q_refuse returns       *)
(* false (never when q_refuse = 0).                                        *)
(***************************************************************************)
VARIABLES
    q_req,         \* the ReshapeRequest: ncolumns, ids, agg, group_by, tmap, order_by
    q_registered,  \* the ids columns_ holds
    q_script,      \* answers of the operator's read calls
    q_script2,     \* join_query: answers of the second and later JoinIterators
    q_refuse,      \* number of the put that returns false (0: none)
    q_out          \* what the call did: operator built, lookups, loops, puts, errors

queryVars == << q_req, q_registered, q_script, q_script2, q_refuse, q_out >>

\* largest number of samples one read returns
MaxBlock == 2

\* largest number of read calls an operator answers
MaxReads == 2

\* largest number of a refused put
MaxRefuse == 3

\* largest number of columns of a request
MaxColumns == 2

\* an error status other than NO_DATA and UNAVAILABLE
EIO == "EIO"

RECURSIVE Scripts(_)
\* the scripts of at most n reads: SUCCESS answers followed by a final one
Scripts(n) ==
    LET last == { << [status |-> st, size |-> k] >> :
                     st \in {"NO_DATA", "UNAVAILABLE", EIO}, k \in 0..MaxBlock }
    IN  IF n <= 1 THEN last
        ELSE last \cup { << [status |-> "SUCCESS", size |-> k] >> \o sc :
                            k \in 0..MaxBlock, sc \in Scripts(n - 1) }

\* requests: the ids of the (first) column, and which of them is missing where
Requests ==
    { [ncolumns |-> nc, ids |-> ids, agg |-> agg, group_by |-> gb, tmap |-> tm,
       order_by |-> ob] :
         nc \in 0..MaxColumns, ids \in { << 1 >>, << 1, 2 >> },
         agg \in BOOLEAN, gb \in BOOLEAN, tm \in { {1, 2}, {1} },
         ob \in {"SERIES", "TIME"} }

\* the call has not been made
NoCall ==
    [call |-> "NONE", iter |-> "NONE", lookups |-> 0, loops |-> << >>, puts |-> 0,
     errors |-> << >>]

RECURSIVE DrainLoop_IgnoresPut(_, _, _, _)
\* a drain loop that does not look at what put returns
DrainLoop_IgnoresPut(script, i, puts, lp) ==
    LET rd == script[i]
    IN  IF rd.status \notin {"SUCCESS", "NO_DATA", "UNAVAILABLE"}
        THEN [puts |-> lp, error |-> rd.status, reads |-> i, ended |-> "error"]
        ELSE IF rd.status = "SUCCESS"
        THEN DrainLoop_IgnoresPut(script, i + 1, puts + rd.size, lp + rd.size)
        ELSE [puts |-> lp + rd.size, error |-> "NONE", reads |-> i, ended |-> "end"]

RECURSIVE DrainLoop_ErrorAfterPuts(_, _, _, _)
\* a drain loop that hands over the samples of a read before it looks at the
\* status of that read
DrainLoop_ErrorAfterPuts(script, i, puts, lp) ==
    LET rd == script[i]
    IN  IF q_refuse \in (puts + 1)..(puts + rd.size)
        THEN [puts |-> lp + (q_refuse - puts), error |-> "NONE", reads |-> i,
              ended |-> "refused"]
        ELSE IF rd.status \notin {"SUCCESS", "NO_DATA", "UNAVAILABLE"}
        THEN [puts |-> lp + rd.size, error |-> rd.status, reads |-> i, ended |-> "error"]
        ELSE IF rd.status = "SUCCESS"
        THEN DrainLoop_ErrorAfterPuts(script, i + 1, puts + rd.size, lp + rd.size)
        ELSE [puts |-> lp + rd.size, error |-> "NONE", reads |-> i, ended |-> "end"]

RECURSIVE DrainLoop(_, _, _, _)
\* the loop `while (status == AKU_SUCCESS)` over one operator, from its read
\* number i on: puts counts the put calls of the whole call so far, lp those
\* of this loop
DrainLoop(script, i, puts, lp) ==
    LET rd == script[i]
    IN  IF rd.status \notin {"SUCCESS", "NO_DATA", "UNAVAILABLE"}
        THEN [puts |-> lp, error |-> rd.status, reads |-> i, ended |-> "error"]
        ELSE IF q_refuse \in (puts + 1)..(puts + rd.size)
        THEN [puts |-> lp + (q_refuse - puts), error |-> "NONE", reads |-> i,
              ended |-> "refused"]
        ELSE IF rd.status = "SUCCESS"
        THEN DrainLoop(script, i + 1, puts + rd.size, lp + rd.size)
        ELSE [puts |-> lp + rd.size, error |-> "NONE", reads |-> i, ended |-> "end"]

RECURSIVE DrainAll(_, _, _)
\* the drain loops over the operators with the scripts `scripts`, one after
\* the other; a loop that ended in an error or a refused put returns
DrainAll(scripts, puts, loops) ==
    IF scripts = << >> THEN loops
    ELSE LET l == DrainLoop(Head(scripts), 1, puts, 0)
         IN  IF l.ended = "end"
             THEN DrainAll(Tail(scripts), puts + l.puts, Append(loops, l))
             ELSE Append(loops, l)

\* the outcome of a call that reached its drain loops
Drained(call, iter, lookups, scripts) ==
    LET loops == DrainAll(scripts, 0, << >>)
        last  == loops[Len(loops)]
        RECURSIVE Sum(_)
        Sum(n) == IF n = 0 THEN 0 ELSE loops[n].puts + Sum(n - 1)
    IN  [call |-> call, iter |-> iter, lookups |-> lookups, loops |-> loops,
         puts |-> Sum(Len(loops)),
         errors |-> IF last.ended = "error" THEN << last.error >> ELSE << >>]

\* the outcome of a call that ends in set_error(status) before any read
Failed(call, lookups, status) ==
    [call |-> call, iter |-> "NONE", lookups |-> lookups, loops |-> << >>, puts |-> 0,
     errors |-> << status >>]

\* number of columns_.find calls made for the ids `ids`, looked up in order
\* until one is missing
Lookups(ids) ==
    IF \E i \in 1..Len(ids) : ids[i] \notin q_registered
    THEN CHOOSE i \in 1..Len(ids) :
            /\ ids[i] \notin q_registered
            /\ \A j \in 1..(i - 1) : ids[j] \in q_registered
    ELSE Len(ids)

\* an aggregate branch that builds the Aggregator for either order
AggregateBranch_AnyOrder(req) ==
    IF \E i \in 1..Len(req.ids) : req.ids[i] \notin q_registered
    THEN Failed("query", Lookups(req.ids), "NOT_FOUND")
    ELSE IF req.group_by
    THEN Failed("query", Lookups(req.ids), "NOT_PERMITTED")
    ELSE Drained("query", "Aggregator", Lookups(req.ids), << q_script >>)

\* ColumnStore::query, the branch of req.agg.enabled
AggregateBranch(req) ==
    IF \E i \in 1..Len(req.ids) : req.ids[i] \notin q_registered
    THEN Failed("query", Lookups(req.ids), "NOT_FOUND")
    ELSE IF req.group_by
    THEN Failed("query", Lookups(req.ids), "NOT_PERMITTED")
    ELSE IF req.order_by = "SERIES"
    THEN Drained("query", "Aggregator", Lookups(req.ids), << q_script >>)
    ELSE Failed("query", Lookups(req.ids), "NOT_PERMITTED")

\* ColumnStore::query, the branch of a scan
ScanBranch(req) ==
    IF \E i \in 1..Len(req.ids) : req.ids[i] \notin q_registered
    THEN Failed("query", Lookups(req.ids), "NOT_FOUND")
    ELSE IF req.group_by
    THEN IF \E i \in 1..Len(req.ids) : req.ids[i] \notin req.tmap
         THEN Failed("query", Lookups(req.ids), "NOT_FOUND")
         ELSE IF req.order_by = "SERIES"
         THEN Drained("query", "MergeIterator<SeriesOrder>", Lookups(req.ids),
                      << q_script >>)
         ELSE Drained("query", "MergeIterator<TimeOrder>", Lookups(req.ids),
                      << q_script >>)
    ELSE IF req.order_by = "SERIES"
         THEN Drained("query", "ChainIterator", Lookups(req.ids), << q_script >>)
         ELSE Drained("query", "MergeIterator<TimeOrder>", Lookups(req.ids),
                      << q_script >>)

\* ColumnStore::query(req, qproc)
query(req) ==
    IF req.ncolumns > 1 THEN Failed("query", 0, "BAD_ARG")
    ELSE IF req.ncolumns = 0 THEN Failed("query", 0, "BAD_ARG")
    ELSE IF req.agg THEN AggregateBranch(req)
    ELSE ScanBranch(req)

\* the ids join_query looks up: row by row, the columns of a row in order
\* (every column of the request lists the ids req.ids)
JoinLookupIds(req) ==
    [n \in 1..(Len(req.ids) * req.ncolumns) |-> req.ids[((n - 1) \div req.ncolumns) + 1]]

\* a join_query that builds its JoinIterators without looking the ids up
join_query_NoLookup(req) ==
    IF req.ncolumns < 2 THEN Failed("join_query", 0, "BAD_ARG")
    ELSE Drained("join_query", "JoinIterator", Len(JoinLookupIds(req)),
                 [ix \in 1..Len(req.ids) |-> IF ix = 1 THEN q_script ELSE q_script2])

\* a join_query that accepts a request of one column
join_query_AcceptsOneColumn(req) ==
    IF req.ncolumns < 1 THEN Failed("join_query", 0, "BAD_ARG")
    ELSE IF \E i \in 1..Len(req.ids) : req.ids[i] \notin q_registered
    THEN Failed("join_query", Lookups(JoinLookupIds(req)), "NOT_FOUND")
    ELSE Drained("join_query", "JoinIterator", Lookups(JoinLookupIds(req)),
                 [ix \in 1..Len(req.ids) |-> IF ix = 1 THEN q_script ELSE q_script2])

\* ColumnStore::join_query(req, qproc): one JoinIterator per row
join_query(req) ==
    IF req.ncolumns < 2 THEN Failed("join_query", 0, "BAD_ARG")
    ELSE IF \E i \in 1..Len(req.ids) : req.ids[i] \notin q_registered
    THEN Failed("join_query", Lookups(JoinLookupIds(req)), "NOT_FOUND")
    ELSE Drained("join_query", "JoinIterator", Lookups(JoinLookupIds(req)),
                 [ix \in 1..Len(req.ids) |-> IF ix = 1 THEN q_script ELSE q_script2])

QueryInit ==
    /\ q_req \in Requests
    /\ q_registered \in { {1, 2}, {1} }
    /\ q_script \in Scripts(MaxReads)
    /\ q_script2 \in { q_script, << [status |-> EIO, size |-> 0] >> }
    /\ q_refuse \in 0..MaxRefuse
    /\ q_out = NoCall

\* the values the query variables keep in the other specifications
QueryIdle ==
    /\ q_req = [ncolumns |-> 0, ids |-> << >>, agg |-> FALSE, group_by |-> FALSE,
                tmap |-> {}, order_by |-> "SERIES"]
    /\ q_registered = {}
    /\ q_script = << >>
    /\ q_script2 = << >>
    /\ q_refuse = 0
    /\ q_out = NoCall

\* a thread calls query with the request
Query ==
    /\ q_out.call = "NONE"
    /\ q_out' = query(q_req)
    /\ UNCHANGED << q_req, q_registered, q_script, q_script2, q_refuse >>

\* a thread calls join_query with the request
JoinQuery ==
    /\ q_out.call = "NONE"
    /\ q_out' = join_query(q_req)
    /\ UNCHANGED << q_req, q_registered, q_script, q_script2, q_refuse >>

(***************************************************************************)
(* Aggregator: materializes one sample per series from the aggregate       *)
(* cursors of the series.                                                  *)
(***************************************************************************)
VARIABLES
    a_ids,      \* ids_
    a_func,     \* func_
    a_status,   \* the status each cursor returns with its result
    a_outsz,    \* the number of results each cursor returns from its first read
    a_pos,      \* pos_
    a_count,    \* how many times each cursor was read
    a_out,      \* the samples written to the destinations so far
    a_calls,    \* number of read calls made
    a_ret       \* status and number of elements the last read returned

aggVars == << a_ids, a_func, a_status, a_outsz, a_pos, a_count, a_out, a_calls, a_ret >>

\* largest number of Aggregator::read calls
MaxAggCalls == 4

AggregationFunctions == {"MIN", "MAX", "SUM", "CNT"}

\* the lists of ids the Aggregator is built with
AggIdLists == { << 1 >>, << 2, 1 >>, << 1, 2, 3 >>, << 3, 1, 2 >> }

\* the NBTreeAggregationResult of the series id over the queried interval
AggResult(id) ==
    [cnt |-> id + 1, sum |-> id + 10, min |-> id + 20, max |-> id + 30,
     mints |-> id + 40, maxts |-> id + 50, _begin |-> id + 60, _end |-> id + 70]

\* NBTreeAggregator::read of the cursor numbered k: its single result the
\* first time (none for an empty series or a failed read), nothing afterwards
AggCursorRead(k, count) ==
    IF count[k] = 0
    THEN [status |-> a_status[k], outsz |-> a_outsz[k], destval |-> AggResult(a_ids[k])]
    ELSE [status |-> "NO_DATA", outsz |-> 0, destval |-> AggResult(a_ids[k])]

\* a sample that takes the timestamp _begin for every function
AggSample_BeginTimestamp(id, destval) ==
    [paramid |-> id, type |-> "FLOAT",
     timestamp |-> destval._begin,
     float64 |-> CASE a_func = "MIN" -> destval.min
                   [] a_func = "MAX" -> destval.max
                   [] a_func = "SUM" -> destval.sum
                   [] a_func = "CNT" -> destval.cnt]

\* the sample Aggregator::read creates from an aggregation result
AggSample(id, destval) ==
    [paramid |-> id, type |-> "FLOAT",
     timestamp |-> CASE a_func = "MIN" -> destval.mints
                     [] a_func = "MAX" -> destval.maxts
                     [] a_func = "SUM" -> destval._end
                     [] a_func = "CNT" -> destval._end,
     float64 |-> CASE a_func = "MIN" -> destval.min
                   [] a_func = "MAX" -> destval.max
                   [] a_func = "SUM" -> destval.sum
                   [] a_func = "CNT" -> destval.cnt]

RECURSIVE AggLoop(_, _, _, _, _, _)
\* the loop `while (pos_ < iters_.size())` of Aggregator::read; a cursor that
\* does not return exactly one result is read again and again ("HANG")
AggLoop(pos, size, nelements, out, status, count) ==
    IF pos >= Len(a_ids)
    THEN [pos |-> pos, out |-> out, count |-> count, status |-> status,
          nelements |-> nelements]
    ELSE LET rd     == AggCursorRead(pos + 1, count)
             count2 == [count EXCEPT ![pos + 1] = @ + 1]
         IN  IF rd.outsz # 1
             THEN [pos |-> pos, out |-> out, count |-> count2, status |-> "HANG",
                   nelements |-> nelements]
             ELSE LET out2 == Append(out, AggSample(a_ids[pos + 1], rd.destval))
                  IN  IF size - 1 = 0 \/ rd.status \notin {"NO_DATA", "SUCCESS"}
                      THEN [pos |-> pos + 1, out |-> out2, count |-> count2,
                            status |-> rd.status, nelements |-> nelements + 1]
                      ELSE AggLoop(pos + 1, size - 1, nelements + 1, out2, rd.status,
                                   count2)

AggInit ==
    /\ a_ids \in AggIdLists
    /\ a_func \in AggregationFunctions
    /\ a_status \in [1..Len(a_ids) -> {"SUCCESS", "NO_DATA", "UNAVAILABLE", EIO}]
    /\ a_outsz \in [1..Len(a_ids) -> {0, 1}]
    /\ a_pos = 0
    /\ a_count = [k \in 1..Len(a_ids) |-> 0]
    /\ a_out = << >>
    /\ a_calls = 0
    /\ a_ret = [status |-> "NONE", nelements |-> 0]

\* the values the Aggregator variables keep in the other specifications
AggIdle ==
    /\ a_ids = << >>
    /\ a_func = "MIN"
    /\ a_status = << >>
    /\ a_outsz = << >>
    /\ a_pos = 0
    /\ a_count = << >>
    /\ a_out = << >>
    /\ a_calls = 0
    /\ a_ret = [status |-> "NONE", nelements |-> 0]

\* Aggregator::read(dest, size)
AggregatorRead(size) ==
    /\ a_calls < MaxAggCalls
    /\ a_ret.status # "HANG"
    /\ \E r \in { AggLoop(a_pos, size, 0, a_out, "NO_DATA", a_count) } :
          /\ a_pos' = r.pos
          /\ a_out' = r.out
          /\ a_count' = r.count
          /\ a_ret' = [status |-> r.status, nelements |-> r.nelements]
    /\ a_calls' = a_calls + 1
    /\ UNCHANGED << a_ids, a_func, a_status, a_outsz >>

(***************************************************************************)
(* Eval node (query_processing/eval.h), as exercised by the unit tests.    *)
(* The evaluator itself is outside the modelled sources; its behaviour is  *)
(* modelled from its description, its inputs and expected outputs from the *)
(* tests.                                                                  *)
(***************************************************************************)
VARIABLES
    e_tree,     \* the expression handed to the constructor (ptree)
    e_node,     \* the expression the node keeps after construction
    e_puts,     \* the samples put into the node, in order
    e_next      \* the first values of the samples the next node received

evalVars == << e_tree, e_node, e_puts, e_next >>

MaxEvalVal == 2
MaxEvalPuts == 2

\* the three shapes of a ptree entry: number, string, nested array
Const(n) == [op |-> "const", v |-> n, s |-> << >>, args |-> << >>]
Str(chars) == [op |-> "str", v |-> 0, s |-> chars, args |-> << >>]
Node(op, args) == [op |-> op, v |-> 0, s |-> << >>, args |-> args]
Column(k) == [op |-> "col", v |-> k, s |-> << >>, args |-> << >>]

Digits == << "0", "1", "2", "3", "4", "5", "6", "7", "8", "9" >>

\* the metric names init_request registers: col0 .. col9, the K-th name
\* belongs to the K-th entry of request.select.columns
ColumnNames == [k \in 1..10 |-> << "c", "o", "l", Digits[k] >>]

RECURSIVE ParseDigits(_, _)
\* decimal value of a digit string, -1 when a character is no digit
ParseDigits(chars, acc) ==
    IF chars = << >> THEN acc
    ELSE IF \E d \in 1..10 : Digits[d] = Head(chars)
    THEN ParseDigits(Tail(chars), 10 * acc + (CHOOSE d \in 1..10 : Digits[d] = Head(chars)) - 1)
    ELSE -1

\* the number a string operand denotes, if it is numeric
ParseNumber(chars) ==
    LET neg  == chars # << >> /\ Head(chars) = "-"
        body == IF neg THEN Tail(chars) ELSE chars
        v    == IF body = << >> THEN -1 ELSE ParseDigits(body, 0)
    IN  [ok |-> v >= 0, v |-> IF neg THEN 0 - v ELSE v]

RECURSIVE ApplyOp(_, _)
\* the value of operator op on the non-empty list of operand values
ApplyOp(op, vals) ==
    IF Len(vals) = 1 THEN vals[1]
    ELSE LET rest == ApplyOp(op, Tail(vals))
         IN  CASE op = "+"   -> vals[1] + rest
               [] op = "*"   -> vals[1] * rest
               [] op = "min" -> Min2(vals[1], rest)
               [] op = "max" -> Max2(vals[1], rest)

\* mutant of Eval_fold: folds a constant subexpression to its first operand
Eval_fold_FirstOperand(op, args) == args[1]

\* constant folding: an operator whose operands are all constants becomes
\* the constant it evaluates to
Eval_fold(op, args) ==
    IF \A i \in 1..Len(args) : args[i].op = "const"
    THEN Const(ApplyOp(op, [i \in 1..Len(args) |-> args[i].v]))
    ELSE Node(op, args)

RECURSIVE Eval_compile(_)
\* Eval::Eval: numeric strings become constants, names become column
\* references, constant subexpressions are folded
Eval_compile(tree) ==
    CASE tree.op = "const" -> tree
      [] tree.op = "str" ->
           IF ParseNumber(tree.s).ok THEN Const(ParseNumber(tree.s).v)
           ELSE Column(CHOOSE k \in 1..10 : ColumnNames[k] = tree.s)
      [] OTHER ->
           Eval_fold(tree.op, [i \in 1..Len(tree.args) |-> Eval_compile(tree.args[i])])

RECURSIVE Eval_value(_, _)
\* the value of a compiled expression on the values of the incoming sample
Eval_value(node, sample) ==
    CASE node.op = "const" -> node.v
      [] node.op = "col" -> sample[node.v]
      [] OTHER ->
           ApplyOp(node.op, [i \in 1..Len(node.args) |-> Eval_value(node.args[i], sample)])

RECURSIVE MaxColumn(_)
\* the largest column an expression refers to, 0 when it refers to none
MaxColumn(node) ==
    CASE node.op = "const" -> 0
      [] node.op = "col" -> node.v
      [] OTHER ->
           LET cols == { MaxColumn(node.args[i]) : i \in 1..Len(node.args) }
           IN  CHOOSE c \in cols : \A d \in cols : d <= c

\* the unit tests: expression, values of the sample, value expected at the
\* next node
EvalTests ==
    << [tree |-> Node("+", << Const(1), Const(2), Const(3), Const(4) >>),
        sample |-> << 11 >>, expected |-> 10],
       [tree |-> Node("+", << Str(ColumnNames[1]), Const(2), Const(3), Const(4) >>),
        sample |-> << 11 >>, expected |-> 20],
       [tree |-> Node("+", << Str(ColumnNames[1]), Const(2), Const(3), Const(4),
                              Node("*", << Const(3), Const(3) >>) >>),
        sample |-> << 11 >>, expected |-> 29],
       [tree |-> Node("*", << Str(ColumnNames[1]), Str(ColumnNames[2]), Str(ColumnNames[4]) >>),
        sample |-> << 3, 5, 7, 11 >>, expected |-> 165],
       [tree |-> Node("+", << Str(ColumnNames[3]), Const(28),
                              Node("*", << Str(ColumnNames[1]), Str(ColumnNames[2]),
                                           Str(ColumnNames[4]) >>) >>),
        sample |-> << 3, 5, 7, 11 >>, expected |-> 200],
       [tree |-> Node("min", << Str(ColumnNames[2]), Const(10), Str(ColumnNames[1]),
                                Str(ColumnNames[3]), Str(ColumnNames[4]) >>),
        sample |-> << 3, 5, 7, 11 >>, expected |-> 3],
       [tree |-> Node("min", << Str(<< "1" >>), Const(10), Str(<< "-", "1", "0" >>),
                                Str(<< "2" >>), Str(<< "1", "0", "0" >>) >>),
        sample |-> << 0 >>, expected |-> 0 - 10],
       [tree |-> Node("max", << Str(ColumnNames[2]), Const(10), Str(ColumnNames[1]),
                                Str(ColumnNames[3]), Str(ColumnNames[4]) >>),
        sample |-> << 3, 5, 7, 11 >>, expected |-> 11],
       [tree |-> Node("max", << Str(<< "1" >>), Const(10), Str(<< "-", "1", "0" >>),
                                Str(<< "2" >>), Str(<< "1", "0", "0" >>) >>),
        sample |-> << 0 >>, expected |-> 100] >>

\* operands of the further expressions put through the node
EvalOperands ==
    { Const(2), Str(ColumnNames[1]), Str(ColumnNames[2]), Str(<< "-", "1" >>),
      Node("*", << Const(3), Str(<< "2" >>) >>) }

EvalTrees ==
    { EvalTests[t].tree : t \in 1..Len(EvalTests) }
        \cup { Node(op, << a, b >>) : op \in {"+", "*", "min", "max"},
                                      a \in EvalOperands, b \in EvalOperands }

\* incoming samples: a FLOAT sample is its one value, a TUPLE its values
EvalSamples ==
    { EvalTests[t].sample : t \in 1..Len(EvalTests) }
        \cup { << x, y >> : x \in 0..MaxEvalVal, y \in 0..MaxEvalVal }

\* the node after construction
EvalInit ==
    /\ e_tree \in EvalTrees
    /\ e_node = Eval_compile(e_tree)
    /\ e_puts = << >>
    /\ e_next = << >>

\* the values the variables keep in the other specifications
EvalIdle ==
    /\ e_tree = << >>
    /\ e_node = << >>
    /\ e_puts = << >>
    /\ e_next = << >>

\* Eval::put(sample): the value is computed and one sample goes to next
EvalPut(sample) ==
    /\ Len(e_puts) < MaxEvalPuts
    /\ MaxColumn(e_node) <= Len(sample)
    /\ e_puts' = Append(e_puts, sample)
    /\ e_next' = Append(e_next, Eval_value(e_node, sample))
    /\ UNCHANGED << e_tree, e_node >>

(***************************************************************************)
(* ColumnStore::query, scan branch: the operator built for a request whose *)
(* ids are all found, and the reads the drain loop makes on it.            *)
(***************************************************************************)
VARIABLES
    sc_req      \* the scan request: group_by, tmap (group_by.transient_map), order_by

scanVars == << sc_req >>

\* the transient maps of the requests: both send two series to one group
TransientMaps ==
    { [id \in SeqRange(MergeIds) |-> IF id = 3 THEN 8 ELSE 7],
      [id \in SeqRange(MergeIds) |-> IF id = 2 THEN 8 ELSE 7] }

\* the class of the operator ColumnStore::query builds for the scan request
ScanOperator(req) ==
    IF req.group_by
    THEN IF req.order_by = "SERIES" THEN "MergeIterator<SeriesOrder>"
         ELSE "MergeIterator<TimeOrder>"
    ELSE IF req.order_by = "SERIES" THEN "ChainIterator"
         ELSE "MergeIterator<TimeOrder>"

\* the ids the operator is built with: rewritten through transient_map when
\* group_by is enabled
ScanIds(req, ids) ==
    IF req.group_by THEN [i \in 1..Len(ids) |-> req.tmap[ids[i]]] ELSE ids

\* the state when the drain loop starts: the operator was built over the
\* cursors of a forward scan
ScanInit ==
    /\ sc_req \in [group_by : BOOLEAN, tmap : TransientMaps, order_by : {"SERIES", "TIME"}]
    /\ IF ScanOperator(sc_req) = "ChainIterator"
       THEN /\ ChainInit
            /\ c_kind = "ChainIterator"
            /\ c_unavail = {}
            /\ MergeIdle
       ELSE /\ MergeInitWith(ScanIds(sc_req, MergeIds),
                             {IF ScanOperator(sc_req) = "MergeIterator<SeriesOrder>"
                              THEN "SeriesOrder" ELSE "TimeOrder"},
                             {TRUE})
            /\ ChainIdle

\* the value the scan variable keeps in the other specifications
ScanIdle ==
    sc_req = [group_by |-> FALSE, tmap |-> << >>, order_by |-> "SERIES"]

\* the drain loop reads the MergeIterator
ScanMergeRead(size) ==
    /\ ScanOperator(sc_req) # "ChainIterator"
    /\ m_status \in {"NONE", "SUCCESS"}
    /\ MergeRead(size)
    /\ UNCHANGED sc_req

\* the drain loop reads the ChainIterator
ScanChainRead(size) ==
    /\ ScanOperator(sc_req) = "ChainIterator"
    /\ c_status \in {"NONE", "SUCCESS"}
    /\ ChainIteratorRead(size)
    /\ UNCHANGED sc_req

(***************************************************************************)
(* Construction of JoinIterator and MergeIterator (column_store.cpp).      *)
(***************************************************************************)
VARIABLES
    k_class,    \* the class constructed
    k_iters,    \* length of the cursor vector handed to the constructor
    k_ids,      \* length of the id vector handed to the constructor
    k_state     \* "NONE" before construction, then "CONSTRUCTED" or "PANIC",
                \* "READ" once the constructed operator has been read

ctorVars == << k_class, k_iters, k_ids, k_state >>

\* JoinIterator::MAX_TUPLE_SIZE
MAX_TUPLE_SIZE == 64

\* the vector lengths tried
VectorSizes == { 0, 1, 2, 3, MAX_TUPLE_SIZE, MAX_TUPLE_SIZE + 1 }

\* JoinIterator::JoinIterator(iters, ids): the members iters_ and ids_ are
\* move-constructed from the parameters first, which leaves the parameter
\* vectors empty; the test then reads the sizes of the parameters
JoinIterator_ctor(niters, nids) ==
    LET iters_size == niters - niters
        ids_size   == nids - nids
    IN  IF iters_size # ids_size \/ ids_size > MAX_TUPLE_SIZE
        THEN "PANIC"
        ELSE "CONSTRUCTED"

\* MergeIterator::MergeIterator(ids, it): the test reads the members
MergeIterator_ctor(nids, nit) ==
    IF nit # nids THEN "PANIC" ELSE "CONSTRUCTED"

CtorInit ==
    /\ k_class \in {"JoinIterator", "MergeIterator"}
    /\ k_iters \in VectorSizes
    /\ k_ids \in VectorSizes
    /\ k_state = "NONE"

\* the values the variables keep in the other specifications
CtorIdle ==
    /\ k_class = "JoinIterator"
    /\ k_iters = 0
    /\ k_ids = 0
    /\ k_state = "NONE"

JoinConstruct ==
    /\ k_class = "JoinIterator"
    /\ k_state = "NONE"
    /\ k_state' = JoinIterator_ctor(k_iters, k_ids)
    /\ UNCHANGED << k_class, k_iters, k_ids >>

MergeConstruct ==
    /\ k_class = "MergeIterator"
    /\ k_state = "NONE"
    /\ k_state' = MergeIterator_ctor(k_ids, k_iters)
    /\ UNCHANGED << k_class, k_iters, k_ids >>

\* the first read of an operator whose construction returned
CtorFirstRead ==
    /\ k_state = "CONSTRUCTED"
    /\ k_state' = "READ"
    /\ UNCHANGED << k_class, k_iters, k_ids >>

(***************************************************************************)
(* EventChainMaterializer (scan.cpp).                                      *)
(***************************************************************************)
VARIABLES
    ev_ids,        \* ids_
    ev_events,     \* ev_events[c]: the events cursor c holds, [ts, len]
    ev_tail,       \* whether a cursor's last event carries NO_DATA
    ev_fail,       \* the one read that fails: [cursor, at, status, ressz]
    ev_cpos,       \* ev_cpos[c]: events cursor c has delivered so far
    ev_pos,        \* pos_
    ev_available,  \* available_
    ev_curr,       \* curr_id_, curr_ts_, curr_ (its length) and the call that read it
    ev_out,        \* every sample written by the read calls so far, in order
    ev_ret,        \* (status, size) returned by the last read
    ev_calls       \* number of read calls made

eventVars == << ev_ids, ev_events, ev_tail, ev_fail, ev_cpos, ev_pos,
                ev_available, ev_curr, ev_out, ev_ret, ev_calls >>

\* the series ids of the chained event cursors
EventIds == << 2, 1 >>

EventCursors == 1..Len(EventIds)

\* lengths in bytes of the events a cursor may hold
EventLengths == { 1, 2 }

\* the numbers of events one cursor may hold
EventCounts == 0..2

\* read calls made on one materializer
MaxEventCalls == 4

\* dest_size of a read: room for no event, for an event of one byte, for two
\* events of any length
EventDestSizes == { SizeofSample, SizeofSample + 1, 2 * (SizeofSample + 2) }

\* no read fails
NoFailure == [cursor |-> 0, at |-> 0, status |-> "SUCCESS", ressz |-> 0]

\* iters_[pos_]->read(&curr_ts_, &curr_, 1) on cursor c that has delivered
\* `pos` events: the next event, the failure, or (NO_DATA, 0) when exhausted
EventCursorRead(c, pos) ==
    LET remain == Len(ev_events[c]) - pos
    IN  IF ev_fail.cursor = c /\ ev_fail.at = pos
        THEN [status |-> ev_fail.status, size |-> ev_fail.ressz, ts |-> 0, len |-> 0]
        ELSE IF remain = 0
        THEN [status |-> "NO_DATA", size |-> 0, ts |-> 0, len |-> 0]
        ELSE [status |-> IF remain = 1 /\ ev_tail THEN "NO_DATA" ELSE "SUCCESS",
              size |-> 1, ts |-> ev_events[c][pos + 1].ts,
              len |-> ev_events[c][pos + 1].len]

\* static_cast<u16>(space_needed)
CastU16(n) == n % 65536

\* the test that lets the pending event into the destination
EventFits_Always(dest_size, space_needed) == TRUE

\* !(dest_size < space_needed)
EventFits(dest_size, space_needed) == ~(dest_size < space_needed)

RECURSIVE EventLoop(_, _, _, _, _, _, _, _)
\* EventChainMaterializer::read, the while loop; `dest_size` is the room
\* left, `accsz` the bytes written and `out` the samples written in this call
EventLoop(pos, available, curr, cpos, dest_size, accsz, out, status) ==
    LET done == [pos |-> pos, available |-> available, curr |-> curr,
                 cpos |-> cpos, out |-> out, status |-> status, size |-> accsz]
    IN
    IF ~(pos < Len(ev_ids)) THEN done
    ELSE IF ~available
    THEN
      LET c     == pos + 1
          rd    == EventCursorRead(c, cpos[c])
          cpos2 == IF rd.status \in {"SUCCESS", "NO_DATA"}
                   THEN [cpos EXCEPT ![c] = @ + rd.size] ELSE cpos
          curr2 == IF rd.size = 0 THEN [curr EXCEPT !.id = ev_ids[c]]
                   ELSE [id |-> ev_ids[c], ts |-> rd.ts, len |-> rd.len,
                         call |-> ev_calls + 1]
      IN  IF rd.size = 0
          THEN EventLoop(pos + 1, FALSE, curr2, cpos2, dest_size, accsz, out, rd.status)
          ELSE IF rd.status # "NO_DATA" /\ rd.status # "SUCCESS"
          THEN [done EXCEPT !.curr = curr2, !.cpos = cpos2, !.status = rd.status]
          ELSE EventLoop(pos, TRUE, curr2, cpos2, dest_size, accsz, out, rd.status)
    ELSE
      LET space_needed == SizeofSample + curr.len
          sample == [type |-> "EVENT", size |-> CastU16(space_needed),
                     paramid |-> curr.id, timestamp |-> curr.ts, float64 |-> 0,
                     data |-> curr.len, offset |-> accsz,
                     call |-> ev_calls + 1, read |-> curr.call]
      IN  IF ~EventFits(dest_size, space_needed) THEN done
          ELSE EventLoop(pos, FALSE, curr, cpos, dest_size - space_needed,
                         accsz + space_needed, Append(out, sample), status)

\* the event sequences a cursor may hold: timestamps 1, 2, ... in scan order
EventSeqs ==
    UNION { { [i \in 1..n |-> [ts |-> i, len |-> l[i]]] : l \in [1..n -> EventLengths] }
            : n \in EventCounts }

\* EventChainMaterializer::EventChainMaterializer
EventInit ==
    /\ ev_ids = EventIds
    /\ ev_events \in [EventCursors -> EventSeqs]
    /\ ev_tail \in BOOLEAN
    /\ ev_fail \in {NoFailure} \cup
                   { f \in [cursor : EventCursors, at : EventCounts,
                            status : {"UNAVAILABLE", EIO}, ressz : {0, 1}] :
                       f.at <= Len(ev_events[f.cursor]) }
    /\ ev_cpos = [c \in EventCursors |-> 0]
    /\ ev_pos = 0
    /\ ev_available = FALSE
    /\ ev_curr = [id |-> 0, ts |-> 0, len |-> 0, call |-> 0]
    /\ ev_out = << >>
    /\ ev_ret = [status |-> "NONE", size |-> 0, dest_size |-> 0]
    /\ ev_calls = 0

\* the values the variables keep in the other specifications
EventIdle ==
    /\ ev_ids = << >>
    /\ ev_events = << >>
    /\ ev_tail = FALSE
    /\ ev_fail = NoFailure
    /\ ev_cpos = << >>
    /\ ev_pos = 0
    /\ ev_available = FALSE
    /\ ev_curr = [id |-> 0, ts |-> 0, len |-> 0, call |-> 0]
    /\ ev_out = << >>
    /\ ev_ret = [status |-> "NONE", size |-> 0, dest_size |-> 0]
    /\ ev_calls = 0

\* EventChainMaterializer::read(dest, dest_size)
EventChainRead(dest_size) ==
    /\ ev_ids # << >>
    /\ ev_calls < MaxEventCalls
    /\ \E r \in {EventLoop(ev_pos, ev_available, ev_curr, ev_cpos, dest_size, 0,
                           << >>, "NO_DATA")} :
          /\ ev_pos' = r.pos
          /\ ev_available' = r.available
          /\ ev_curr' = r.curr
          /\ ev_cpos' = r.cpos
          /\ ev_out' = ev_out \o r.out
          /\ ev_ret' = [status |-> r.status, size |-> r.size, dest_size |-> dest_size]
    /\ ev_calls' = ev_calls + 1
    /\ UNCHANGED << ev_ids, ev_events, ev_tail, ev_fail >>

(***************************************************************************)
(* Specifications.                                                         *)
(***************************************************************************)
vars == << mergeVars, chainVars, joinVars, gaVars, registryVars, sessionVars,
          queryVars, aggVars, scanVars, evalVars, ctorVars, eventVars >>

InitMerge == MergeInit /\ ChainIdle /\ JoinIdle /\ GaIdle /\ RegistryIdle /\ QueryIdle /\ AggIdle /\ ScanIdle /\ EvalIdle /\ CtorIdle /\ EventIdle

NextMerge ==
    \E size \in 1..MaxDest :
        MergeRead(size) /\ UNCHANGED << chainVars, joinVars, gaVars, registryVars, sessionVars,
                        queryVars, aggVars, scanVars, evalVars, ctorVars, eventVars >>

SpecMerge == InitMerge /\ [][NextMerge]_vars

InitChain == ChainInit /\ MergeIdle /\ JoinIdle /\ GaIdle /\ RegistryIdle /\ QueryIdle /\ AggIdle /\ ScanIdle /\ EvalIdle /\ CtorIdle /\ EventIdle

NextChain ==
    \/ \E dest_size \in ChainDestSizes :
          ChainMaterializerRead(dest_size)
              /\ UNCHANGED << mergeVars, joinVars, gaVars, registryVars, sessionVars,
                        queryVars, aggVars, scanVars, evalVars, ctorVars, eventVars >>
    \/ \E size \in 1..MaxDest :
          ChainIteratorRead(size)
              /\ UNCHANGED << mergeVars, joinVars, gaVars, registryVars, sessionVars,
                        queryVars, aggVars, scanVars, evalVars, ctorVars, eventVars >>

SpecChain == InitChain /\ [][NextChain]_vars

InitJoin == JoinInit /\ MergeIdle /\ ChainIdle /\ GaIdle /\ RegistryIdle /\ QueryIdle /\ AggIdle /\ ScanIdle /\ EvalIdle /\ CtorIdle /\ EventIdle

NextJoin ==
    \E size \in JoinDestSizes :
        JoinRead(size) /\ UNCHANGED << mergeVars, chainVars, gaVars, registryVars, sessionVars,
                        queryVars, aggVars, scanVars, evalVars, ctorVars, eventVars >>

SpecJoin == InitJoin /\ [][NextJoin]_vars

InitGroupAgg == GaInit /\ MergeIdle /\ ChainIdle /\ JoinIdle /\ RegistryIdle /\ QueryIdle /\ AggIdle /\ ScanIdle /\ EvalIdle /\ CtorIdle /\ EventIdle

NextGroupAgg ==
    \E size \in 1..MaxDest :
        GaRead(size) /\ UNCHANGED << mergeVars, chainVars, joinVars, registryVars, sessionVars,
                        queryVars, aggVars, scanVars, evalVars, ctorVars, eventVars >>

SpecGroupAgg == InitGroupAgg /\ [][NextGroupAgg]_vars

InitRegistry == RegistryInit /\ MergeIdle /\ ChainIdle /\ JoinIdle /\ GaIdle /\ QueryIdle /\ AggIdle /\ ScanIdle /\ EvalIdle /\ CtorIdle /\ EventIdle

otherVars == << mergeVars, chainVars, joinVars, gaVars, queryVars, aggVars, scanVars, evalVars, ctorVars, eventVars >>

NextRegistry ==
    \/ \E t \in Threads, id \in Ids :
          CreateLock(t, id) /\ UNCHANGED << otherVars, sessionVars >>
    \/ \E t \in Threads : CreateInsert(t) /\ UNCHANGED << otherVars, sessionVars >>
    \/ \E t \in Threads : CreateForceInit(t) /\ UNCHANGED << otherVars, sessionVars >>
    \/ \E t \in Threads, todo \in Mappings :
          OpenStart(t, todo) /\ UNCHANGED << otherVars, sessionVars >>
    \/ \E t \in Threads : OpenLock(t) /\ UNCHANGED << otherVars, sessionVars >>
    \/ \E t \in Threads : OpenInsert(t) /\ UNCHANGED << otherVars, sessionVars >>
    \/ \E t \in Threads, id \in Ids : Write(t, id) /\ UNCHANGED otherVars
    \/ \E t \in Threads, id \in Ids :
          QueryLookup(t, id) /\ UNCHANGED << otherVars, sessionVars >>
    \/ \E t \in Threads, id \in Ids :
          JoinQueryLookup(t, id) /\ UNCHANGED << otherVars, sessionVars >>
    \/ \E t \in Threads : GetUncommittedMemory(t) /\ UNCHANGED << otherVars, sessionVars >>
    \/ \E t \in Threads : Close(t) /\ UNCHANGED << otherVars, sessionVars >>
    \/ \E t \in Threads : Reopen(t) /\ UNCHANGED otherVars

SpecRegistry == InitRegistry /\ [][NextRegistry]_vars

NextSession ==
    \/ \E t \in Threads, id \in Ids :
          CreateLock(t, id) /\ UNCHANGED << otherVars, sessionVars >>
    \/ \E t \in Threads : CreateInsert(t) /\ UNCHANGED << otherVars, sessionVars >>
    \/ \E t \in Threads : CreateForceInit(t) /\ UNCHANGED << otherVars, sessionVars >>
    \/ \E t \in Threads, id \in Ids : Write(t, id) /\ UNCHANGED otherVars
    \/ \E t \in Threads, id \in Ids, type \in PayloadTypes :
          SessionWrite(t, id, type) /\ UNCHANGED otherVars

InitSession == SessionInit /\ MergeIdle /\ ChainIdle /\ JoinIdle /\ GaIdle /\ QueryIdle /\ AggIdle /\ ScanIdle /\ EvalIdle /\ CtorIdle /\ EventIdle

SpecSession == InitSession /\ [][NextSession]_vars

InitQuery ==
    QueryInit /\ MergeIdle /\ ChainIdle /\ JoinIdle /\ GaIdle /\ RegistryIdle /\ AggIdle /\ ScanIdle /\ EvalIdle /\ CtorIdle /\ EventIdle

NextQuery ==
    \/ Query /\ UNCHANGED << mergeVars, chainVars, joinVars, gaVars, registryVars,
                             sessionVars, aggVars, scanVars, evalVars, ctorVars, eventVars >>
    \/ JoinQuery /\ UNCHANGED << mergeVars, chainVars, joinVars, gaVars, registryVars,
                                 sessionVars, aggVars, scanVars, evalVars, ctorVars, eventVars >>

SpecQuery == InitQuery /\ [][NextQuery]_vars

InitAggregator ==
    AggInit /\ MergeIdle /\ ChainIdle /\ JoinIdle /\ GaIdle /\ RegistryIdle /\ QueryIdle /\ ScanIdle /\ EvalIdle /\ CtorIdle /\ EventIdle

NextAggregator ==
    \E size \in 1..MaxDest :
        AggregatorRead(size)
            /\ UNCHANGED << mergeVars, chainVars, joinVars, gaVars, registryVars,
                            sessionVars, queryVars, scanVars, evalVars, ctorVars, eventVars >>

SpecAggregator == InitAggregator /\ [][NextAggregator]_vars

InitScan ==
    ScanInit /\ JoinIdle /\ GaIdle /\ RegistryIdle /\ QueryIdle /\ AggIdle /\ EvalIdle /\ CtorIdle /\ EventIdle

NextScan ==
    \/ \E size \in 1..MaxDest :
          ScanMergeRead(size)
              /\ UNCHANGED << chainVars, joinVars, gaVars, registryVars, sessionVars,
                              queryVars, aggVars, evalVars, ctorVars, eventVars >>
    \/ \E size \in 1..MaxDest :
          ScanChainRead(size)
              /\ UNCHANGED << mergeVars, joinVars, gaVars, registryVars, sessionVars,
                              queryVars, aggVars, evalVars, ctorVars, eventVars >>

SpecScan == InitScan /\ [][NextScan]_vars

InitEval ==
    EvalInit /\ MergeIdle /\ ChainIdle /\ JoinIdle /\ GaIdle /\ RegistryIdle /\ QueryIdle
        /\ AggIdle /\ ScanIdle /\ CtorIdle /\ EventIdle

NextEval ==
    \E sample \in EvalSamples :
        EvalPut(sample)
            /\ UNCHANGED << mergeVars, chainVars, joinVars, gaVars, registryVars,
                            sessionVars, queryVars, aggVars, scanVars, ctorVars, eventVars >>

SpecEval == InitEval /\ [][NextEval]_vars

NextJoinDrain ==
    JoinDrainRead
        /\ UNCHANGED << mergeVars, chainVars, gaVars, registryVars, sessionVars,
                        queryVars, aggVars, scanVars, evalVars, ctorVars, eventVars >>

\* the thread keeps executing the drain loop as long as its condition holds:
\* weak fairness of the loop's turn, which always changes j_calls
SpecJoinDrain == InitJoin /\ [][NextJoinDrain]_vars /\ WF_j_calls(JoinDrainTurn)

InitCtor ==
    CtorInit /\ MergeIdle /\ ChainIdle /\ JoinIdle /\ GaIdle /\ RegistryIdle /\ QueryIdle
        /\ AggIdle /\ ScanIdle /\ EvalIdle /\ EventIdle

NextCtor ==
    \/ JoinConstruct
          /\ UNCHANGED << mergeVars, chainVars, joinVars, gaVars, registryVars,
                          sessionVars, queryVars, aggVars, scanVars, evalVars, eventVars >>
    \/ MergeConstruct
          /\ UNCHANGED << mergeVars, chainVars, joinVars, gaVars, registryVars,
                          sessionVars, queryVars, aggVars, scanVars, evalVars, eventVars >>
    \/ CtorFirstRead
          /\ UNCHANGED << mergeVars, chainVars, joinVars, gaVars, registryVars,
                          sessionVars, queryVars, aggVars, scanVars, evalVars, eventVars >>

SpecCtor == InitCtor /\ [][NextCtor]_vars

InitEvent ==
    EventInit /\ MergeIdle /\ ChainIdle /\ JoinIdle /\ GaIdle /\ RegistryIdle /\ QueryIdle
        /\ AggIdle /\ ScanIdle /\ EvalIdle /\ CtorIdle

NextEvent ==
    \E dest_size \in EventDestSizes :
        EventChainRead(dest_size)
          /\ UNCHANGED << mergeVars, chainVars, joinVars, gaVars, registryVars,
                          sessionVars, queryVars, aggVars, scanVars, evalVars, ctorVars >>

SpecEvent == InitEvent /\ [][NextEvent]_vars

(***************************************************************************)
(* Claims about MergeIterator.                                             *)
(***************************************************************************)
\* key (timestamp, id) of the i-th reported sample
MergeOutKey(i) == << m_out[i].ts, m_out[i].id >>

\* the samples a complete merge must deliver: every point of every cursor,
\* stamped with the id of its own cursor
MergeExpected ==
    UNION { { [id |-> m_ids[c], ts |-> m_pts[c][p].ts, val |-> m_pts[c][p].val,
               type |-> "FLOAT"] : p \in 1..Len(m_pts[c]) } : c \in MergeCursors }

\* C1: the samples produced by a MergeIterator<TimeOrder>, concatenated over
\* the read calls, are non-decreasing in (timestamp, id) when the direction
\* is FORWARD and non-increasing in that key when it is BACKWARD.
C1_MergeTimeOrdered ==
    m_order = "TimeOrder" =>
        \A i \in 1..(Len(m_out) - 1) :
            IF m_forward
            THEN ~TupleLess(MergeOutKey(i + 1), MergeOutKey(i))
            ELSE ~TupleLess(MergeOutKey(i), MergeOutKey(i + 1))

\* C2: every reported sample is a point of some cursor stamped with that
\* cursor's id, no sample is reported twice, and once read has returned
\* NO_DATA the reported samples are exactly the points of all cursors.
C2_MergeNoLossNoDup ==
    /\ \A i \in 1..Len(m_out) : m_out[i] \in MergeExpected
    /\ \A i, j \in 1..Len(m_out) : i # j => m_out[i] # m_out[j]
    /\ m_status = "NO_DATA" => SeqRange(m_out) = MergeExpected

(***************************************************************************)
(* Claims about the chain operators.                                       *)
(***************************************************************************)
RECURSIVE ChainConcat(_)
\* the points of cursors c..N as FLOAT samples stamped with their cursor's id
ChainConcat(c) ==
    IF c > Len(c_pts) THEN << >>
    ELSE [p \in 1..Len(c_pts[c]) |->
            [id |-> c_ids[c], ts |-> c_pts[c][p].ts, val |-> c_pts[c][p].val,
             type |-> "FLOAT", size |-> SizeofSample]] \o ChainConcat(c + 1)

\* C3: when every cursor's data is available, the samples reported by the
\* read calls are, in order, the points of
\* c0 stamped id0, then those of c1 stamped id1, ...: nothing is skipped or
\* repeated, and when read first returns a status other than SUCCESS all
\* points of all cursors have been reported.
C3_ChainConcatenation ==
    c_unavail = {} =>
       /\ Len(c_out) <= Len(ChainConcat(1))
       /\ c_out = SubSeq(ChainConcat(1), 1, Len(c_out))
       /\ c_first.status # "NONE" => c_first.n = Len(ChainConcat(1))

\* the destination of the last read was filled
ChainDestinationFull ==
    c_size = IF c_kind = "ChainMaterializer" THEN c_room * SizeofSample ELSE c_room

\* every cursor whose data is available has delivered all its points
ChainAllDelivered ==
    \A c \in ChainCursors \ c_unavail : c_cpos[c] = Len(c_pts[c])

\* C21: a read of a chain operator returns a full destination, or returns
\* NO_DATA once every cursor is exhausted; it never returns NO_DATA, nor a
\* destination that is not full, while a cursor still has unread points.
C21_ChainReadFullOrExhausted ==
    (c_unavail = {} /\ c_status # "NONE") =>
       /\ c_status \in {"SUCCESS", "NO_DATA"}
       /\ c_status = "NO_DATA" => ChainAllDelivered
       /\ ~ChainDestinationFull => ChainAllDelivered

\* C22: a cursor that answers UNAVAILABLE is passed over like an exhausted
\* one: the operator goes on with the next cursor in the same read, so a read
\* returns UNAVAILABLE only when the points of all other cursors have been
\* produced.
C22_ChainSkipsUnavailable ==
    c_status = "UNAVAILABLE" => ChainAllDelivered

(***************************************************************************)
(* Claims about the scan branch of ColumnStore::query.                     *)
(***************************************************************************)
\* the cursor a delivered sample was read from (the values of cursor c are
\* 10 * c + rank)
ScanCursorOf(sample) == sample.val \div 10

\* the samples of `out` are non-decreasing in (mapped id, timestamp)
OrderedBySeriesThenTime(out) ==
    \A i \in 1..(Len(out) - 1) :
        ~TupleLess(<< out[i + 1].id, out[i + 1].ts >>, << out[i].id, out[i].ts >>)

\* the samples of `out` are non-decreasing in (timestamp, id)
OrderedByTimeThenSeries(out) ==
    \A i \in 1..(Len(out) - 1) :
        ~TupleLess(<< out[i + 1].ts, out[i + 1].id >>, << out[i].ts, out[i].id >>)

\* C23: with group_by every delivered sample carries transient_map[original
\* id] and the stream is ordered by (mapped id, timestamp) for SERIES and by
\* (timestamp, mapped id) for TIME; without group_by SERIES delivers the
\* series one after another in request order under their own ids and TIME
\* delivers by (timestamp, id).
C23_ScanGroupByOrdering ==
    /\ sc_req.group_by =>
          /\ \A i \in 1..Len(m_out) :
                 m_out[i].id = sc_req.tmap[MergeIds[ScanCursorOf(m_out[i])]]
          /\ sc_req.order_by = "SERIES" => OrderedBySeriesThenTime(m_out)
          /\ sc_req.order_by = "TIME" => OrderedByTimeThenSeries(m_out)
    /\ ~sc_req.group_by =>
          /\ \A i \in 1..Len(m_out) : m_out[i].id = MergeIds[ScanCursorOf(m_out[i])]
          /\ \A i \in 1..Len(c_out) : c_out[i].id = ChainIds[ScanCursorOf(c_out[i])]
          /\ sc_req.order_by = "TIME" => OrderedByTimeThenSeries(m_out)
          /\ \A i \in 1..(Len(c_out) - 1) :
                 ScanCursorOf(c_out[i]) <= ScanCursorOf(c_out[i + 1])

(***************************************************************************)
(* Claims about the Eval node.                                             *)
(***************************************************************************)
RECURSIVE EvalReference(_, _)
\* the value of the prefix-notation expression on a sample, operand by
\* operand, with no folding
EvalReference(tree, sample) ==
    CASE tree.op = "const" -> tree.v
      [] tree.op = "str" ->
           IF ParseNumber(tree.s).ok THEN ParseNumber(tree.s).v
           ELSE sample[CHOOSE k \in 1..10 : ColumnNames[k] = tree.s]
      [] OTHER ->
           ApplyOp(tree.op, [i \in 1..Len(tree.args) |-> EvalReference(tree.args[i], sample)])

RECURSIVE EvalOnlyConstants(_)
\* the expression has no operand that names a series
EvalOnlyConstants(tree) ==
    CASE tree.op = "const" -> TRUE
      [] tree.op = "str" -> ParseNumber(tree.s).ok
      [] OTHER -> \A i \in 1..Len(tree.args) : EvalOnlyConstants(tree.args[i])

C4_JoinRowPerColumn0Point ==
    /\ Len(j_rows) <= Len(j_pts[1])
    /\ \A k \in 1..Min2(Len(j_rows), Len(j_pts[1])) : j_rows[k].ts = j_pts[1][k].ts

\* C5: in every reported row with key timestamp k, bit i of the presence
\* bitmap is set if and only if column i has a point with timestamp k.
C5_JoinBitmapPresence ==
    \A k \in 1..Len(j_rows) : \A i \in 0..(Len(j_pts) - 1) :
        BitSet(j_rows[k].bitmap, i)
            <=> (\E p \in 1..Len(j_pts[i + 1]) : j_pts[i + 1][p].ts = j_rows[k].ts)

\* C6: every reported row has payload.size = 32 + 8 * popcount(bitmap), each
\* row of a call starts right after the trailing doubles of the previous one
\* (the first at offset 0), and the output size reported by the call is the
\* sum of these row sizes.
C6_JoinRowSize ==
    /\ \A k \in 1..Len(j_rows) :
         /\ j_rows[k].size = SizeofSample + 8 * PopCount(j_rows[k].bitmap)
         /\ j_rows[k].offset =
               IF k > 1 /\ j_rows[k - 1].call = j_rows[k].call
               THEN j_rows[k - 1].offset
                       + SizeofSample + 8 * PopCount(j_rows[k - 1].bitmap)
               ELSE 0
    /\ \A k \in 1..Len(j_rows) :
         (k = Len(j_rows) /\ j_rows[k].call = j_calls)
            => j_size = j_rows[k].offset
                           + SizeofSample + 8 * PopCount(j_rows[k].bitmap)

\* the columns whose bit is set in a bitmap, in ascending order
JoinSetBits(bitmap) ==
    SetToSortedSeq({ i \in 0..(Len(j_pts) - 1) : BitSet(bitmap, i) })

\* column i (0-based) has a point with timestamp ts and value v
JoinColumnHolds(i, ts, v) ==
    \E p \in 1..Len(j_pts[i + 1]) : j_pts[i + 1][p].ts = ts /\ j_pts[i + 1][p].val = v

\* C25: the trailing doubles of every row are a dense array: exactly one slot
\* per set bit of the bitmap, the j-th slot holding the value of the column of
\* the j-th set bit, no slot for an absent column.
C25_JoinDensePayload ==
    \A k \in 1..Len(j_rows) :
        LET cols == JoinSetBits(j_rows[k].bitmap)
        IN  /\ DOMAIN j_rows[k].tuple = 0..(Len(cols) - 1)
            /\ \A j \in 1..Len(cols) :
                   JoinColumnHolds(cols[j], j_rows[k].ts, j_rows[k].tuple[j - 1])

\* C26: the header of every row carries the series id of column 0, the key
\* timestamp taken from column 0, the payload type TUPLE and, in its value
\* slot, the presence bitmap.
C26_JoinRowHeader ==
    \A k \in 1..Len(j_rows) :
        LET h == j_rows[k].header
        IN  /\ "timestamp" \in DOMAIN h /\ h.timestamp = j_rows[k].ts
            /\ "type" \in DOMAIN h /\ h.type = "TUPLE"
            /\ "paramid" \in DOMAIN h /\ h.paramid = j_ids[1]
            /\ "float64" \in DOMAIN h /\ h.float64 = j_rows[k].bitmap

\* the destination cannot hold a row with a value for every column
JoinDestBelowWorstCase == j_dest < SizeofSample + 8 * Len(j_pts)

\* C27: a read writes nothing at or beyond dest + size, reports no output
\* size above size, and returns (SUCCESS, 0) when the destination is smaller
\* than one worst-case row.
C27_JoinReadWithinDestination ==
    /\ j_size <= j_dest
    /\ \A k \in 1..Len(j_rows) :
          j_rows[k].call = j_calls => j_rows[k].extent <= j_dest
    /\ (j_calls > 0 /\ JoinDestBelowWorstCase) => (j_status = "SUCCESS" /\ j_size = 0)

\* C28: every call of JoinIterator::read returns: a column whose buffer is
\* exhausted before a point with timestamp >= the key is found is treated as
\* absent and row assembly goes on with the next column.
C28_JoinReadTerminates ==
    j_status # "HANG"

\* the drain loop of join_query over the iterator has ended
JoinDrainEnded ==
    j_status \notin {"NONE", "SUCCESS", "HANG"}

\* C29: for finite series and a processor that accepts every sample the
\* drain loop of join_query over a JoinIterator eventually receives a status
\* other than SUCCESS and ends.  The reads that never return are the subject
\* of C28 and are set aside here.
C29_JoinQueryTerminates ==
    <>(JoinDrainEnded \/ j_status = "HANG")

\* the vectors handed to the constructor break its precondition
CtorInvalidArguments ==
    \/ k_iters # k_ids
    \/ k_class = "JoinIterator" /\ (k_ids > MAX_TUPLE_SIZE \/ k_iters > MAX_TUPLE_SIZE)

\* C30: constructing a JoinIterator with more than 64 columns or with cursor
\* and id vectors of different lengths panics before any read, and so does
\* constructing a MergeIterator with different numbers of cursors and ids;
\* construction with valid vectors does not panic.
C30_ConstructorPanics ==
    /\ k_state = "PANIC" => CtorInvalidArguments
    /\ k_state \in {"CONSTRUCTED", "READ"} => ~CtorInvalidArguments

(***************************************************************************)
(* Claims about CombineGroupAggregateOperator.                             *)
(***************************************************************************)
RECURSIVE GaFold(_, _)
\* the first n reported results combined in order (n >= 1)
GaFold(out, n) == IF n = 1 THEN out[1] ELSE Combine(GaFold(out, n - 1), out[n])

\* scan offset of an interval bound
GaOffset(forward, t) == IF forward THEN t ELSE GaLen - 1 - t

\* C7: the reported results combined in order are the aggregate of the range
\* scanned so far (nothing is dropped or counted twice at a sub-iterator or
\* buffer boundary), and once read has returned NO_DATA they combine to the
\* aggregate over the whole range, their counts adding up to the number of
\* points.
C7_GroupAggCombinesToWhole ==
    /\ g_out # << >> =>
          LET all == GaFold(g_out, Len(g_out))
          IN  /\ GaOffset(g_forward, all._end) \in 1..GaLen
              /\ all = AggOver(g_forward, 0, GaOffset(g_forward, all._end))
    /\ g_status = "NO_DATA" =>
          /\ g_out # << >>
          /\ GaFold(g_out, Len(g_out)) = AggOver(g_forward, 0, GaLen)
          /\ GaFold(g_out, Len(g_out)).cnt = GaLen

\* the stream has ended after at least one trailing partial result was
\* stitched to the next sub-iterator's leading result
C7_Witness ==
    /\ g_status = "NO_DATA"
    /\ Len(g_iters) >= 2
    /\ \E k \in 1..(Len(g_iters) - 1) :
         /\ g_iters[k] # << >>
         /\ GaPartial(g_forward, g_step, g_iters[k][Len(g_iters[k])])
    /\ \E i \in 1..Len(g_out) : g_out[i]._end # g_out[i]._begin
         /\ \A k \in 1..Len(g_iters) : \A p \in 1..Len(g_iters[k]) : g_iters[k][p] # g_out[i]

\* the step bucket a forward result starts in
GaBucketOf(a) == a._begin \div g_step

\* the aggregate over the whole of step bucket k of a forward scan
GaWholeBucket(k) == AggOver(TRUE, k * g_step, Min2((k + 1) * g_step, GaLen))

\* C32: in forward direction a partial trailing result of a sub-iterator is
\* emitted combined with the leading result of the next one and all other
\* results pass through unchanged: every emitted result is the aggregate of a
\* whole step bucket, the buckets come in scan order and none appears twice,
\* so no partial trailing bucket is surfaced on its own.
C32_GroupAggStitching ==
    g_forward =>
       /\ \A i \in 1..Len(g_out) : g_out[i] = GaWholeBucket(GaBucketOf(g_out[i]))
       /\ \A i \in 1..(Len(g_out) - 1) : GaBucketOf(g_out[i]) < GaBucketOf(g_out[i + 1])

\* C32 witness: a forward scan whose first sub-iterator ends with a partial
\* result A; the reads emitted one result that begins where A begins and
\* ends behind A's end, and went on to emit a later bucket
C32_Witness ==
    /\ g_forward
    /\ Len(g_iters) >= 2
    /\ g_iters[1] # << >>
    /\ GaPartial(TRUE, g_step, g_iters[1][Len(g_iters[1])])
    /\ \E i \in 1..(Len(g_out) - 1) :
          /\ g_out[i]._begin = g_iters[1][Len(g_iters[1])]._begin
          /\ g_out[i]._end > g_iters[1][Len(g_iters[1])]._end

(***************************************************************************)
(* Claims about the ColumnStore registry.                                  *)
(***************************************************************************)
\* the id a thread's last create_new_column or open_or_restore entry named
RefusedId(t) == IF r_arg[t].todo = << >> THEN r_arg[t].id ELSE r_arg[t].todo[1].id

\* C8: under every interleaving of create_new_column and open_or_restore the
\* registry holds at most one entry per id and never a null handle, an id is
\* registered exactly when one registration of it succeeded, and a call that
\* returned BAD_ARG left the id registered with its handle.
C8_RegistryOneHandlePerId ==
    /\ \A i \in Ids :
          /\ ColumnsCount(i) <= 1
          /\ r_registered[i] <= 1
          /\ (r_registered[i] = 1) <=> (ColumnsCount(i) = 1)
    /\ \A e \in r_columns : ~e.null
    /\ \A t \in Threads :
          r_result[t] = "BAD_ARG" => ColumnsCount(RefusedId(t)) = 1

\* C9: every access to columns_ is made by a thread that holds table_lock_,
\* and no access runs while another thread is inserting.
C9_MapAccessUnderLock ==
    /\ r_access.locked
    /\ ~r_race

\* C10: close() returns a map whose keys are the registered ids, and
\* open_or_restore of that map on a fresh registry runs to completion,
\* returns SUCCESS and registers the same ids.
C10_CloseReopenRoundTrip ==
    /\ r_closed.valid => {x.id : x \in r_closed.map} = r_restore_ids
    /\ r_phase = "restoring" => r_crashed = "NO"
    /\ r_phase = "restored" =>
          /\ \A t \in Threads : r_result[t] \in {"NONE", "SUCCESS"}
          /\ ColumnIds = r_restore_ids

\* C11: once close() has returned the registry holds no tree: columns_ is
\* empty, a write that follows gets FAIL_BAD_ID, a query lookup that follows
\* gets NOT_FOUND, and no append reaches a tree whose close() has run.
C11_CloseDetachesTrees ==
    /\ r_closed.valid => r_columns = {}
    /\ (r_closed.valid /\ r_access.op = "write") => s_last.res = "FAIL_BAD_ID"
    /\ (r_closed.valid /\ r_access.op \in {"query", "join_query"}) =>
          \E t \in Threads : r_result[t] = "NOT_FOUND"
    /\ ~(s_last.appended /\ s_last.closed)

(***************************************************************************)
(* Claims about CStoreSession::write and ColumnStore::write.               *)
(***************************************************************************)
\* C18: a CStoreSession::write of a sample whose payload type is not FLOAT
\* returns FAIL_BAD_VALUE and changes nothing: no tree is appended to,
\* columns_ is neither looked up nor changed, table_lock_ is not taken, the
\* session caches are as before and the caller's vector is untouched.
C18_NonFloatWriteChangesNothing ==
    [][ (/\ r_ops' = r_ops + 1
         /\ s_last'.seq = r_ops'
         /\ s_last'.op = "CStoreSession::write"
         /\ s_last'.type # "FLOAT")
        => /\ s_last'.res = "FAIL_BAD_VALUE"
           /\ r_result'[s_last'.t] = "FAIL_BAD_VALUE"
           /\ ~s_last'.appended
           /\ s_last'.after = s_last'.before
           /\ UNCHANGED << r_columns, r_registered, r_access, r_lock, s_cache >> ]_vars

\* C18: the last call was a session write of a sample that is not a float,
\* for a registered id the session has in its cache, with a non-empty vector.
C18_Witness ==
    /\ s_last.op = "CStoreSession::write"
    /\ s_last.type # "FLOAT"
    /\ s_last.seq = r_ops
    /\ s_last.res = "FAIL_BAD_VALUE"
    /\ \E c \in s_cache[s_last.t] : c.id = s_last.id
    /\ s_last.before # << >>

\* the step is a CStoreSession::write of a float sample
SessionFloatWriteStep ==
    /\ r_ops' = r_ops + 1
    /\ s_last'.seq = r_ops'
    /\ s_last'.op = "CStoreSession::write"
    /\ s_last'.type = "FLOAT"

\* every entry of every session cache is the registry's tree of that id
CacheMatchesRegistry ==
    \A t \in Threads : \A c \in s_cache[t] :
       /\ \E e \in r_columns : e.id = c.id /\ e.h = c.h /\ ~e.null
       /\ \A e \in r_columns : (e.id = c.id /\ ~e.null) => e.h = c.h
       /\ \A d \in s_cache[t] : d.id = c.id => d = c

\* a session write that misses the cache for a registered id leaves the id
\* mapped to the registry's handle in the cache of that session
MissFillsCache ==
    (/\ SessionFloatWriteStep
     /\ ~(\E c \in s_cache[s_last'.t] : c.id = s_last'.id)
     /\ ColumnsCount(s_last'.id) > 0)
    => /\ ~s_last'.hit
       /\ \E e \in r_columns :
             /\ e.id = s_last'.id
             /\ s_last'.h = e.h
             /\ [id |-> e.id, h |-> e.h] \in s_cache'[s_last'.t]

\* a session write for an id its cache holds appends to the cached handle and
\* neither takes table_lock_ nor accesses columns_
HitBypassesLock ==
    (/\ SessionFloatWriteStep
     /\ \E c \in s_cache[s_last'.t] : c.id = s_last'.id)
    => /\ s_last'.hit
       /\ s_last'.appended
       /\ ~s_last'.locked
       /\ [id |-> s_last'.id, h |-> s_last'.h] \in s_cache[s_last'.t]
       /\ UNCHANGED << r_lock, r_access, s_cache >>

\* C19: a session write that misses the cache for a registered id maps the id
\* to the registry's handle in the session cache; every later write of that
\* session for the id appends to that handle without table_lock_; and in
\* every state each cache entry is the registry's entry of its id.
C19_SessionCache ==
    /\ []CacheMatchesRegistry
    /\ [][MissFillsCache /\ HitBypassesLock]_vars

\* C19: a session wrote through its cache while another thread held
\* table_lock_.
C19_Witness ==
    /\ s_last.op = "CStoreSession::write"
    /\ s_last.hit
    /\ s_last.seq = r_ops
    /\ r_lock \notin {NoThread, s_last.t}
    /\ [id |-> s_last.id, h |-> s_last.h] \in s_cache[s_last.t]

\* the step is a call of ColumnStore::write or CStoreSession::write
WriteStep ==
    /\ r_ops' = r_ops + 1
    /\ s_last'.seq = r_ops'
    /\ s_last'.op \in {"ColumnStore::write", "CStoreSession::write"}

\* the caller's vector after the write: the roots of the tree written to
\* when the append returned OK_FLUSH_NEEDED, what the caller passed otherwise
RescueVectorRule ==
    IF s_last'.res = "OK_FLUSH_NEEDED"
    THEN \E e \in r_columns' :
            /\ e.h = s_last'.h
            /\ e.id = s_last'.id
            /\ s_last'.after = e.rescue
            /\ s_last'.after # s_last'.before
    ELSE /\ s_last'.res \in {"OK", "FAIL_BAD_VALUE", "FAIL_BAD_ID"}
         /\ s_last'.after = s_last'.before

\* a write of a float sample for an id that is not registered returns
\* FAIL_BAD_ID and adds nothing to columns_ or to a session cache
UnregisteredIdRule ==
    (s_last'.type = "FLOAT" /\ ColumnsCount(s_last'.id) = 0)
    => /\ s_last'.res = "FAIL_BAD_ID"
       /\ ~s_last'.appended
       /\ UNCHANGED << r_columns, r_registered, s_cache >>

\* C20: in ColumnStore::write and CStoreSession::write the caller's rescue
\* point vector is replaced by the tree's roots exactly when the append
\* returned OK_FLUSH_NEEDED and is unchanged for OK, FAIL_BAD_VALUE and
\* FAIL_BAD_ID; a write for an unregistered id returns FAIL_BAD_ID and adds
\* nothing to the registry or to a session cache.
C20_RescueVectorSwap ==
    [][ WriteStep => (RescueVectorRule /\ UnregisteredIdRule) ]_vars

\* C20: a session write through the cache returned OK_FLUSH_NEEDED and the
\* caller's vector now holds the roots of the tree.
C20_Witness ==
    /\ s_last.op = "CStoreSession::write"
    /\ s_last.hit
    /\ s_last.seq = r_ops
    /\ s_last.res = "OK_FLUSH_NEEDED"
    /\ s_last.after = << 10 * s_last.id >>
    /\ s_last.before = << 7 >>

(***************************************************************************)
(* Claims about ColumnStore::query and ColumnStore::join_query.            *)
(***************************************************************************)
\* the scripts of the operators the call drains, in the order it drains them
CallScripts ==
    IF q_out.call = "join_query"
    THEN [ix \in 1..Len(q_req.ids) |-> IF ix = 1 THEN q_script ELSE q_script2]
    ELSE << q_script >>

\* the script has a read that answers with an error status
HasError(script) ==
    \E i \in 1..Len(script) : script[i].status \notin {"SUCCESS", "NO_DATA", "UNAVAILABLE"}

\* the first read of the script that answers with an error status
ErrorRead(script) ==
    CHOOSE i \in 1..Len(script) :
       /\ script[i].status \notin {"SUCCESS", "NO_DATA", "UNAVAILABLE"}
       /\ \A j \in 1..(i - 1) : script[j].status \in {"SUCCESS", "NO_DATA", "UNAVAILABLE"}

RECURSIVE SizesUpTo(_, _)
\* number of samples the reads 1..n of the script return
SizesUpTo(script, n) ==
    IF n = 0 THEN 0 ELSE script[n].size + SizesUpTo(script, n - 1)

\* number of samples the operator returns before its first error status
Offered(script) ==
    IF HasError(script) THEN SizesUpTo(script, ErrorRead(script) - 1)
    ELSE SizesUpTo(script, Len(script))

RECURSIVE OfferedAll(_)
\* number of samples a processor that accepts everything is offered
OfferedAll(scripts) ==
    IF scripts = << >> THEN 0
    ELSE IF HasError(Head(scripts)) THEN Offered(Head(scripts))
    ELSE Offered(Head(scripts)) + OfferedAll(Tail(scripts))

\* C12: when the processor's put returns false on the k-th sample offered,
\* query and join_query return with exactly k put calls made, without a
\* set_error call, and offer no sample after the refused one.
C12_CancelStopsAtRefusedPut ==
    (q_out.iter # "NONE" /\ q_refuse >= 1 /\ OfferedAll(CallScripts) >= q_refuse) =>
        /\ q_out.puts = q_refuse
        /\ q_out.errors = << >>
        /\ q_out.loops[Len(q_out.loops)].ended = "refused"

\* C12: a put is refused in the middle of the samples still to be offered,
\* after a sample of an earlier read was accepted.
C12_Witness ==
    /\ q_out.iter # "NONE"
    /\ q_refuse >= 2
    /\ OfferedAll(CallScripts) > q_refuse
    /\ q_out.puts = q_refuse
    /\ q_out.loops[Len(q_out.loops)].reads >= 2

\* C13: in each drain loop that no refused put ends, a read answering with a
\* status other than SUCCESS, NO_DATA and UNAVAILABLE makes the call report
\* exactly that status once and return, the samples of the earlier reads
\* (and only those) having been put; a read answering NO_DATA or UNAVAILABLE
\* has its samples put, reports nothing and ends the loop.
C13_DrainLoopStatus ==
    \A n \in 1..Len(q_out.loops) :
       LET l  == q_out.loops[n]
           sc == CallScripts[n]
       IN  l.ended # "refused" =>
             IF HasError(sc)
             THEN /\ l.ended = "error"
                  /\ l.error = sc[ErrorRead(sc)].status
                  /\ l.reads = ErrorRead(sc)
                  /\ l.puts = SizesUpTo(sc, ErrorRead(sc) - 1)
                  /\ n = Len(q_out.loops)
                  /\ q_out.errors = << l.error >>
             ELSE /\ l.ended = "end"
                  /\ l.error = "NONE"
                  /\ l.reads = Len(sc)
                  /\ l.puts = SizesUpTo(sc, Len(sc))
                  /\ (n = Len(q_out.loops) => q_out.errors = << >>)

\* C13: a drain loop ended by an error status whose read carried samples,
\* after every sample of the earlier reads was put.
C13_Witness ==
    /\ Len(q_out.loops) >= 1
    /\ LET l  == q_out.loops[Len(q_out.loops)]
           sc == CallScripts[Len(q_out.loops)]
       IN  /\ l.ended = "error"
           /\ sc[l.reads].size >= 1
           /\ q_out.puts >= 1
           /\ q_out.puts = OfferedAll(CallScripts)

\* the request asks for an id the registry does not hold, or is a scan with
\* group_by enabled asking for an id group_by.transient_map does not hold
MissingId ==
    \/ \E i \in 1..Len(q_req.ids) : q_req.ids[i] \notin q_registered
    \/ /\ q_out.call = "query"
       /\ ~q_req.agg
       /\ q_req.group_by
       /\ \E i \in 1..Len(q_req.ids) : q_req.ids[i] \notin q_req.tmap

\* the request has the number of columns the call accepts
ShapeAccepted ==
    \/ q_out.call = "query" /\ q_req.ncolumns = 1
    \/ q_out.call = "join_query" /\ q_req.ncolumns >= 2

\* C14 as stated: whenever a requested id is absent from the registry, or
\* from group_by.transient_map in a scan with group_by, the processor
\* receives set_error(NOT_FOUND) exactly once and no sample is put.
C14_MissingIdNotFound ==
    (q_out.call # "NONE" /\ MissingId) =>
        (q_out.errors = << "NOT_FOUND" >> /\ q_out.puts = 0)

\* C14 amended: the same for requests that pass the validation of the number
\* of columns (one for query, two or more for join_query), which is made
\* before any id is looked up.
C14_MissingIdNotFoundWhenShapeAccepted ==
    (q_out.call # "NONE" /\ ShapeAccepted /\ MissingId) =>
        (q_out.errors = << "NOT_FOUND" >> /\ q_out.puts = 0 /\ q_out.iter = "NONE")

\* C14: a join_query of two columns found its first id and missed a later one
\* although the operators would have delivered samples.
C14_Witness ==
    /\ q_out.call = "join_query"
    /\ ShapeAccepted
    /\ MissingId
    /\ q_out.lookups >= 2
    /\ Offered(q_script) >= 1
    /\ q_out.errors = << "NOT_FOUND" >>

\* C15: query with no column or more than one column, and join_query with
\* fewer than two columns, report set_error(BAD_ARG) once, look no id up in
\* the registry, build no operator and put no sample.
C15_ShapeValidation ==
    (q_out.call # "NONE" /\ ~ShapeAccepted) =>
        /\ q_out.errors = << "BAD_ARG" >>
        /\ q_out.lookups = 0
        /\ q_out.iter = "NONE"
        /\ q_out.puts = 0

\* C15: a join_query of one column was refused although its ids are
\* registered and the operator would have delivered samples.
C15_Witness ==
    /\ q_out.call = "join_query"
    /\ q_req.ncolumns = 1
    /\ ~MissingId
    /\ Offered(q_script) >= 1
    /\ q_out.errors = << "BAD_ARG" >>

\* the request is an aggregate query of exactly one column
AggregateRequest ==
    q_out.call = "query" /\ q_req.ncolumns = 1 /\ q_req.agg

\* what C16 says of an aggregate query of one column: NOT_PERMITTED and no
\* put with group_by, NOT_PERMITTED and no put with order_by = TIME, and the
\* Aggregator only for order_by = SERIES without group_by
AggregatePermissions ==
    /\ q_req.group_by =>
          (q_out.errors = << "NOT_PERMITTED" >> /\ q_out.puts = 0)
    /\ (~q_req.group_by /\ q_req.order_by = "TIME") =>
          (q_out.errors = << "NOT_PERMITTED" >> /\ q_out.puts = 0)
    /\ q_out.iter # "NONE" =>
          (q_out.iter = "Aggregator" /\ q_req.order_by = "SERIES" /\ ~q_req.group_by)

\* C16 as stated: every query of exactly one column with aggregation enabled
\* reports NOT_PERMITTED with group_by, and with order_by = TIME; only
\* order_by = SERIES without group_by produces aggregate output.
C16_AggregateNotPermitted ==
    AggregateRequest => AggregatePermissions

\* C16 amended: the same for the requests whose ids are all registered; the
\* ids are looked up first, and a missing one is reported as NOT_FOUND.
C16_AggregateNotPermittedWhenIdsFound ==
    (AggregateRequest /\ \A i \in 1..Len(q_req.ids) : q_req.ids[i] \in q_registered) =>
        /\ AggregatePermissions
        /\ (~q_req.group_by /\ q_req.order_by = "SERIES") => q_out.iter = "Aggregator"

\* C16: an aggregate query by TIME over two registered ids was refused
\* although the operator would have delivered samples.
C16_Witness ==
    /\ AggregateRequest
    /\ q_req.ids = << 1, 2 >>
    /\ q_registered = {1, 2}
    /\ ~q_req.group_by
    /\ q_req.order_by = "TIME"
    /\ Offered(q_script) >= 1
    /\ q_out.errors = << "NOT_PERMITTED" >>

(***************************************************************************)
(* Claims about Aggregator.                                                *)
(***************************************************************************)
\* the sample the series numbered i of ids_ is to be reported with
AggExpected(i) ==
    LET r == AggResult(a_ids[i])
    IN  [paramid |-> a_ids[i], type |-> "FLOAT",
         timestamp |-> IF a_func = "MIN" THEN r.mints
                       ELSE IF a_func = "MAX" THEN r.maxts ELSE r._end,
         float64 |-> IF a_func = "MIN" THEN r.min
                     ELSE IF a_func = "MAX" THEN r.max
                     ELSE IF a_func = "SUM" THEN r.sum ELSE r.cnt]

\* C17: when every aggregate cursor yields exactly one result, the read
\* calls of capacity 1 or more write one FLOAT sample per id, in the order of
\* the ids, with the timestamp and value the function selects; every call
\* made before the last id is reached adds a sample, so that n calls always
\* produce all n samples and no more; each cursor is read exactly once.
C17_AggregatorOneSamplePerId ==
    (\A k \in 1..Len(a_ids) : a_outsz[k] = 1) =>
       /\ a_ret.status # "HANG"
       /\ a_out = [i \in 1..a_pos |-> AggExpected(i)]
       /\ a_pos <= Len(a_ids)
       /\ a_pos >= Min2(Len(a_ids), a_calls)
       /\ \A k \in 1..Len(a_ids) : a_count[k] = IF k <= a_pos THEN 1 ELSE 0

\* C17: three series were aggregated by SUM in more than one read call, one
\* cursor returning UNAVAILABLE with its result, and a further read was made.
C17_Witness ==
    /\ Len(a_ids) = 3
    /\ \A k \in 1..3 : a_outsz[k] = 1
    /\ a_func = "SUM"
    /\ \E k \in 1..2 : a_status[k] = "UNAVAILABLE"
    /\ a_pos = 3
    /\ Len(a_out) = 3
    /\ a_calls >= 3
    /\ a_ret.nelements = 0

\* C31: Aggregator::read returns for every input: a cursor whose read does
\* not produce exactly one result is skipped (pos_ moves past it), and a hard
\* error status of a cursor is what the call returns.
C31_AggregatorSkipsEmptyCursor ==
    /\ a_ret.status # "HANG"
    /\ \A k \in 1..Len(a_ids) :
          (a_count[k] > 0 /\ a_outsz[k] # 1) =>
              /\ a_pos >= k
              /\ (a_status[k] = EIO /\ a_pos = k) => a_ret.status = EIO

(***************************************************************************)
(* Claims about the MergeIterator read protocol and its ranges.            *)
(***************************************************************************)
\* the sample at the head of the heap built from `ranges`
MergeBuffered(ranges) ==
    LET live  == { r \in 1..Len(ranges) : ~RangeEmpty(ranges[r]) }
        index == HeapTop(ranges, live)
    IN  [id |-> ranges[index].id, ts |-> RangeTopKey(ranges[index])[1],
         val |-> RangeTopValue(ranges[index]), type |-> "FLOAT"]

\* a read returned SUCCESS: the destination was filled and a point is left
\* in a range
MergeSuccessStep ==
    /\ m_size' = Len(m_out') - Len(m_out)
    /\ m_size' \in 1..MaxDest
    /\ \E r \in 1..Len(m_ranges') : ~RangeEmpty(m_ranges'[r])

\* a read returned NO_DATA: at most the requested samples were written,
\* every cursor has delivered all its points, and iters_ and ranges_ are
\* released
MergeNoDataStep ==
    /\ m_size' = Len(m_out') - Len(m_out)
    /\ m_size' <= MaxDest
    /\ \A c \in MergeCursors : m_cpos'[c] = Len(m_pts[c])
    /\ m_iters' = << >>
    /\ m_ranges' = << >>

\* C33: read returns (SUCCESS, n) only with n samples written and a further
\* point buffered, which is the first sample of the next call; it returns
\* (NO_DATA, k), k <= n, only when every range and cursor is exhausted; from
\* then on cursors and ranges are released and every read returns (NO_DATA, 0).
C33_MergeStatusProtocol ==
    [][ /\ m_status' = "SUCCESS" => MergeSuccessStep
        /\ m_status' = "NO_DATA" => MergeNoDataStep
        /\ (m_status = "SUCCESS" /\ Len(m_out') > Len(m_out)) =>
               m_out'[Len(m_out) + 1] = MergeBuffered(m_ranges)
        /\ m_status = "NO_DATA" =>
               (m_status' = "NO_DATA" /\ m_size' = 0 /\ m_out' = m_out) ]_mergeVars

\* the cursor whose points carry the value v (see SeriesPoints)
MergeCursorOfValue(v) == v \div 10

\* C34: for every range index r, the id of the range, the cursor iters_[r]
\* that the heap index r selects for the refill, and the cursor whose points
\* the range holds are one and the same input cursor, also when cursors
\* earlier in the vector were discarded as empty at initialization.
C34_MergeRangeCursorBinding ==
    \A r \in 1..Len(m_ranges) :
        /\ m_ids[m_iters[r]] = m_ranges[r].id
        /\ \A p \in 1..m_ranges[r].size :
              m_ids[MergeCursorOfValue(m_ranges[r].xs[p])] = m_ranges[r].id

(***************************************************************************)
(* Claims about EventChainMaterializer.                                    *)
(***************************************************************************)
\* events cursor c delivers: all it holds, or those before its failing read
EventDelivered(c) ==
    IF ev_fail.cursor = c THEN ev_fail.at ELSE Len(ev_events[c])

RECURSIVE EventConcat(_)
\* the events cursors c..N deliver, in cursor order, stamped with their
\* cursor's id
EventConcat(c) ==
    IF c > Len(ev_ids) THEN << >>
    ELSE [p \in 1..EventDelivered(c) |->
             [paramid |-> ev_ids[c], timestamp |-> ev_events[c][p].ts,
              data |-> ev_events[c][p].len]] \o EventConcat(c + 1)

\* 1 when an event is pending, 0 otherwise
EventPending == IF ev_available THEN 1 ELSE 0

RECURSIVE EventSum(_, _)
\* sum of f[1..n]
EventSum(f, n) == IF n = 0 THEN 0 ELSE f[n] + EventSum(f, n - 1)

\* the samples written so far and the pending event are the delivered events
\* in cursor order, none dropped, repeated or read again, each sample an
\* EVENT of size header + length placed inside the destination of its call
EventOutputExact ==
    LET expected == EventConcat(1)
    IN  /\ Len(ev_out) + EventPending <= Len(expected)
        /\ \A i \in 1..Len(ev_out) :
              /\ ev_out[i].paramid = expected[i].paramid
              /\ ev_out[i].timestamp = expected[i].timestamp
              /\ ev_out[i].data = expected[i].data
              /\ ev_out[i].type = "EVENT"
              /\ ev_out[i].size = SizeofSample + expected[i].data
              /\ ev_out[i].offset =
                    IF i > 1 /\ ev_out[i - 1].call = ev_out[i].call
                    THEN ev_out[i - 1].offset + ev_out[i - 1].size ELSE 0
              /\ ev_out[i].call = ev_calls =>
                    ev_out[i].offset + ev_out[i].size <= ev_ret.dest_size
        /\ ev_available =>
              /\ ev_curr.id = expected[Len(ev_out) + 1].paramid
              /\ ev_curr.ts = expected[Len(ev_out) + 1].timestamp
              /\ ev_curr.len = expected[Len(ev_out) + 1].data
        /\ EventSum(ev_cpos, Len(ev_cpos)) = Len(ev_out) + EventPending
        /\ ev_pos = Len(ev_ids) => Len(ev_out) = Len(expected)

\* a read made while an event is pending: the event is the first sample of
\* the call when the destination has room for it, and stays pending, with
\* no cursor read, when it has not
EventPendingStep ==
    ev_available =>
        IF ev_ret'.dest_size >= SizeofSample + ev_curr.len
        THEN /\ Len(ev_out') > Len(ev_out)
             /\ ev_out'[Len(ev_out) + 1].paramid = ev_curr.id
             /\ ev_out'[Len(ev_out) + 1].timestamp = ev_curr.ts
             /\ ev_out'[Len(ev_out) + 1].data = ev_curr.len
             /\ ev_out'[Len(ev_out) + 1].offset = 0
        ELSE /\ ev_out' = ev_out
             /\ ev_available'
             /\ ev_curr' = ev_curr
             /\ ev_cpos' = ev_cpos
             /\ ev_ret'.size = 0

EventBytesOfLastCall ==
    EventSum([i \in 1..Len(ev_out) |->
                 IF ev_out[i].call = ev_calls THEN ev_out[i].size ELSE 0], Len(ev_out))

\* C36: when a cursor's read returns a status other than SUCCESS, NO_DATA or
\* UNAVAILABLE, also with zero events, read stops at that cursor and returns
\* that status with the bytes already produced; pos_ does not move past the
\* failing cursor.
C36_EventErrorPropagation ==
    (ev_fail.cursor # 0 /\ ev_fail.status = EIO) =>
        /\ ev_pos <= ev_fail.cursor - 1
        /\ ( /\ ev_pos = ev_fail.cursor - 1
             /\ ~ev_available
             /\ ev_calls > 0
             /\ ev_cpos[ev_fail.cursor] = ev_fail.at ) =>
               /\ ev_ret.status = EIO
               /\ ev_ret.size = EventBytesOfLastCall

====
